---- MODULE Spec2Model ----
(***************************************************************************)
(* A model of jcande/bones: the Wang-tile runtime (tiling.rs,              *)
(* constraint.rs, mosaic.rs), the bit buffer (io_buffer.rs) and the        *)
(* W-machine to tile compiler (mosaic.rs).                                 *)
(*                                                                         *)
(* Conventions.  A Tile is the tuple <<north, east, south, west>>.  A      *)
(* TileRef is a 0-based index, as in the source, so the tile of ref r is   *)
(* buffer[r + 1].  A HashSet or a Vec that only ever feeds a HashSet is a  *)
(* set; a HashSet that is iterated is a sequence without repetitions, the  *)
(* order being the iteration order.  Option<T> is a set with at most one   *)
(* member.                                                                 *)
(***************************************************************************)
EXTENDS Integers, Sequences, FiniteSets, TLC

(***************************************************************************)
(* Bounds of the model.                                                    *)
(***************************************************************************)
\* Longest W-machine program enumerated exhaustively.
MaxProgLen == 2
\* Number of successful step() calls followed in one run.
MaxSteps == 6
\* Number of bytes the input stream delivers before it is exhausted.
MaxInputBytes == 1

\* The bytes an input stream is made of.
InputBytes == {0, 1, 2, 3}

\* Number of bytes the source of an IoBuffer held directly delivers.
MaxIoBytes == 2
\* Number of get() or put() calls made on an IoBuffer held directly.
MaxIoCalls == 16

\* Longest statement list handed to wmach::Program::from_str.
MaxStmts == 4

\* The bytes of the tests of io_buffer.rs, and the two constant bytes.
IoBytes == {0, 90, 165, 255}

(***************************************************************************)
(* tiling.rs: pips, directions, tiles, dominoes                            *)
(***************************************************************************)
EMPTY_PIP == 0
ZERO_PIP == 0
ONE_PIP == 1
\* (std::u32::MAX >> 1) as Pip
UNALLOCATED_PIP == 2147483647

pip_from_components(position, value) == (position * 2) + (value % 2)

Neg(direction) ==
    CASE direction = "North" -> "South"
      [] direction = "South" -> "North"
      [] direction = "East" -> "West"
      [] direction = "West" -> "East"

Tile_new(north, east, south, west) == <<north, east, south, west>>

cardinal(tile, direction) ==
    CASE direction = "North" -> tile[1]
      [] direction = "East" -> tile[2]
      [] direction = "South" -> tile[3]
      [] direction = "West" -> tile[4]

PureNothing == [tag |-> "Pure", bias |-> "Nothing"]
PureHidden == [tag |-> "Pure", bias |-> "Hidden"]
In(alts) == [tag |-> "In", alts |-> alts]
Out(bit) == [tag |-> "Out", bit |-> bit]

Domino_pure(tile) == [side_effect |-> PureNothing, tile |-> tile]
Domino_input(tile, alts) == [side_effect |-> In(alts), tile |-> tile]
Domino_output(tile, bit) == [side_effect |-> Out(bit), tile |-> tile]

\* Ord for SideEffects: Out < In < Pure, as a rank.
SideEffects_rank(side_effect) ==
    CASE side_effect.tag = "Out" -> 0
      [] side_effect.tag = "In" -> 1
      [] side_effect.tag = "Pure" -> 2

(***************************************************************************)
(* Sequence helpers                                                        *)
(***************************************************************************)
Range(s) == {s[i] : i \in DOMAIN s}

RECURSIVE Flatten(_)
Flatten(ss) == IF ss = <<>> THEN <<>> ELSE Head(ss) \o Flatten(Tail(ss))

\* s without the later occurrences of a value: a Vec collected into a set.
RECURSIVE Dedup(_)
Dedup(s) ==
    IF s = <<>> THEN <<>>
    ELSE LET front == Dedup(SubSeq(s, 1, Len(s) - 1))
             last == s[Len(s)]
         IN  IF last \in Range(front) THEN front ELSE Append(front, last)

(***************************************************************************)
(* tiling.rs: DominoPile                                                   *)
(***************************************************************************)
\* sort_unstable_by on the side effect.  The order inside one class is the
\* order of `dominoes`, itself the arbitrary order of the hash set the
\* caller drained.
SortDominoes(dominoes) ==
    LET class(k) == SelectSeq(dominoes, LAMBDA d : SideEffects_rank(d.side_effect) = k)
    IN  class(0) \o class(1) \o class(2)

\* The index the hash map Tile -> TileRef ends with: every insert of a tile
\* already present overwrites the earlier index.
AsRef(buffer) ==
    [t \in Range(buffer) |->
        CHOOSE r \in 0..(Len(buffer) - 1) :
            /\ buffer[r + 1] = t
            /\ \A q \in 0..(Len(buffer) - 1) : buffer[q + 1] = t => q <= r]

\* A HashMap collected from (key, value) pairs in order: the last pair of
\* a key wins.
CollectMap(pairs) ==
    [k \in {pairs[i][1] : i \in DOMAIN pairs} |->
        LET last == CHOOSE i \in DOMAIN pairs :
                        /\ pairs[i][1] = k
                        /\ \A j \in DOMAIN pairs : pairs[j][1] = k => j <= i
        IN  pairs[last][2]]

DominoPile_new(dominoes) ==
    LET sorted == SortDominoes(dominoes)
        watermark == Len(SelectSeq(sorted, LAMBDA d : d.side_effect.tag # "Pure"))
        inputs == SelectSeq(sorted, LAMBDA d : d.side_effect.tag = "In")
        outputs == SelectSeq(sorted, LAMBDA d : d.side_effect.tag = "Out")
        alts == Flatten([i \in DOMAIN inputs |-> inputs[i].side_effect.alts])
        buffer == [i \in DOMAIN sorted |-> sorted[i].tile] \o alts
        as_ref == AsRef(buffer)
    IN  [buffer |-> buffer,
         as_ref |-> as_ref,
         input |-> CollectMap([i \in DOMAIN inputs |->
                     <<as_ref[inputs[i].tile],
                       <<as_ref[inputs[i].side_effect.alts[1]],
                         as_ref[inputs[i].side_effect.alts[2]]>> >>]),
         output |-> CollectMap([i \in DOMAIN outputs |->
                     <<as_ref[outputs[i].tile], outputs[i].side_effect.bit>>]),
         impure_watermark |-> watermark,
         hidden_watermark |-> Len(sorted)]

\* Option<&TileRef>
get(pile, tile) ==
    IF tile \in DOMAIN pile.as_ref THEN {pile.as_ref[tile]} ELSE {}

\* Index<TileRef> for DominoPile
TileOf(pile, r) == pile.buffer[r + 1]

Panic == [tag |-> "Panic"]

get_side_effects(pile, tile_ref) ==
    IF tile_ref >= pile.hidden_watermark THEN PureHidden
    ELSE IF tile_ref >= pile.impure_watermark THEN PureNothing
    ELSE IF tile_ref \in DOMAIN pile.input THEN In(pile.input[tile_ref])
    ELSE IF tile_ref \in DOMAIN pile.output THEN Out(pile.output[tile_ref])
    ELSE Panic

matches_pip(pile, pip, direction) ==
    {pile.as_ref[t] : t \in {u \in DOMAIN pile.as_ref : cardinal(u, Neg(direction)) = pip}}

matches_tile(pile, tile, direction) ==
    matches_pip(pile, cardinal(tile, direction), direction)

matches(pile, tile_ref, direction) ==
    matches_tile(pile, TileOf(pile, tile_ref), direction)

(***************************************************************************)
(* constraint.rs: TileCloud                                                *)
(***************************************************************************)
Prefer(tile_ref) == [kind |-> "Prefer", ref |-> tile_ref]
Avoid(tile_ref) == [kind |-> "Avoid", ref |-> tile_ref]

Whatever == [kind |-> "Whatever"]

\* The refs whose side effect cannot be told: get_side_effects panics.
Panics(pile, refs) == {r \in refs : get_side_effects(pile, r) = Panic}

\* TileCloud::new without the bar on hidden tiles.
TileCloud_new_unfiltered(pile, initial, conf) == [cloud |-> initial, conf |-> conf]

TileCloud_new(pile, initial, conf) ==
    [cloud |-> {r \in initial : get_side_effects(pile, r) # PureHidden},
     conf |-> conf]

positional_pips(pile, self, direction) ==
    {cardinal(TileOf(pile, r), direction) : r \in self.cloud}

\* The cloud after constrain; the call returns Err(NoTilesLeft) when it is
\* left empty.
constrain(pile, self, other, orientation) ==
    LET available_pips == positional_pips(pile, other, Neg(orientation))
    IN  [self EXCEPT !.cloud =
            {r \in self.cloud : cardinal(TileOf(pile, r), orientation) \in available_pips}]

\* select() with the Prefer tie-breaker only.
select_prefer_only(self) ==
    IF self.conf.kind = "Prefer" /\ self.conf.ref \in self.cloud THEN {self.conf.ref}
    ELSE self.cloud

\* select() without the Prefer and Avoid tie-breakers.
select_any(self) == self.cloud

\* Every ref select() can return, over the iteration orders of the hash
\* set; the empty set stands for Err(NoTilesLeft).
select(self) ==
    CASE self.conf.kind = "Prefer" ->
            IF self.conf.ref \in self.cloud THEN {self.conf.ref} ELSE self.cloud
      [] self.conf.kind = "Avoid" ->
            IF self.cloud \ {self.conf.ref} # {} THEN self.cloud \ {self.conf.ref}
            ELSE self.cloud
      [] OTHER -> self.cloud

(***************************************************************************)
(* constraint.rs: Row                                                      *)
(***************************************************************************)
\* Row::new with the two frontier clouds taken from the opposite sides of
\* the border.
Row_new_mirrored(pile, border, board) ==
    LET latitude == matches(pile, border, "South")
        west == TileCloud_new(pile, matches(pile, border, "West") \cap latitude,
                              Prefer(border))
        east == TileCloud_new(pile, matches(pile, border, "East") \cap latitude,
                              Prefer(border))
        inner == [i \in DOMAIN board |->
                    TileCloud_new(pile, matches(pile, board[i], "South"), Avoid(border))]
    IN  <<west>> \o inner \o <<east>>

Row_new(pile, border, board) ==
    LET latitude == matches(pile, border, "South")
        west == TileCloud_new(pile, matches(pile, border, "East") \cap latitude,
                              Prefer(border))
        east == TileCloud_new(pile, matches(pile, border, "West") \cap latitude,
                              Prefer(border))
        inner == [i \in DOMAIN board |->
                    TileCloud_new(pile, matches(pile, board[i], "South"), Avoid(border))]
    IN  <<west>> \o inner \o <<east>>

\* The refs Row::new hands to TileCloud::new, each passed to get_side_effects.
Row_new_refs(pile, border, board) ==
    LET latitude == matches(pile, border, "South")
    IN  UNION ({matches(pile, border, "East") \cap latitude,
                matches(pile, border, "West") \cap latitude}
               \cup {matches(pile, board[i], "South") : i \in DOMAIN board})

\* The sweep without the early return on an emptied cloud.
RECURSIVE Sweep_through(_, _, _)
Sweep_through(pile, row, i) ==
    IF i > Len(row) THEN row
    ELSE LET westward == IF i > 1 THEN constrain(pile, row[i], row[i - 1], "West")
                         ELSE row[i]
             eastward == IF i < Len(row) THEN constrain(pile, westward, row[i + 1], "East")
                         ELSE westward
         IN  Sweep_through(pile, [row EXCEPT ![i] = eastward], i + 1)

\* The propagation loop of to_vec from position i on (1-based): the clouds
\* when the sweep completes, or <<>> at the first constrain that fails.
RECURSIVE Sweep(_, _, _)
Sweep(pile, row, i) ==
    IF i > Len(row) THEN row
    ELSE LET westward == IF i > 1 THEN constrain(pile, row[i], row[i - 1], "West")
                         ELSE row[i]
             eastward == IF i < Len(row) THEN constrain(pile, westward, row[i + 1], "East")
                         ELSE westward
         IN  IF westward.cloud = {} \/ eastward.cloud = {} THEN <<>>
             ELSE Sweep(pile, [row EXCEPT ![i] = eastward], i + 1)

\* Every sequence whose i-th member is drawn from choices[i].
RECURSIVE Product(_)
Product(choices) ==
    IF choices = <<>> THEN {<<>>}
    ELSE {<<h>> \o t : h \in Head(choices), t \in Product(Tail(choices))}

\* The selection loop leaving out the border wherever it was selected.
Trim_interior(border, picked) == SelectSeq(picked, LAMBDA r : r # border)

\* The selection loop without the removal of border tiles at the ends.
Trim_keep(border, picked) == picked

\* The selection loop of to_vec: border tiles at the two ends are left out.
Trim(border, picked) ==
    LET n == Len(picked)
        keep(i) == ~((i = 1 \/ i = n) /\ picked[i] = border)
    IN  Flatten([i \in 1..n |-> IF keep(i) THEN <<picked[i]>> ELSE <<>>])

Ok(val) == [tag |-> "Ok", val |-> val]
Err(err) == [tag |-> "Err", err |-> err]

\* Every result Row::new(..)?.to_vec() can give.
to_vec(pile, border, board) ==
    LET row == Sweep(pile, Row_new(pile, border, board), 1)
        choices == [i \in DOMAIN row |-> select(row[i])]
    IN  IF row = <<>> THEN {Err("UnsatisfiableConstraints")}
        ELSE IF \E i \in DOMAIN choices : choices[i] = {} THEN {Err("NoTilesLeft")}
        ELSE {Ok(Trim(border, picked)) : picked \in Product(choices)}

(***************************************************************************)
(* io_buffer.rs: IoBuffer                                                  *)
(***************************************************************************)
INITIAL_OFFSET == 0
LAST_OFFSET == 8

RECURSIVE Pow2(_)
Pow2(n) == IF n = 0 THEN 1 ELSE 2 * Pow2(n - 1)

\* The bit at `offset` counted from the high end of the byte.
BitAt_high(byte, offset) == (byte \div Pow2(7 - offset)) % 2 = 1

\* byte & (1 << offset) != 0
BitAt(byte, offset) == (byte \div Pow2(offset)) % 2 = 1

\* byte | (bit << offset) on a u8
OrBit(byte, bit, offset) ==
    IF bit = 0 \/ BitAt(byte, offset) THEN byte ELSE (byte + Pow2(offset)) % 256

BitBuffer_new == [buffer |-> 0, offset |-> INITIAL_OFFSET]

IoBuffer_new == [input_buf |-> BitBuffer_new, output_buf |-> BitBuffer_new]

\* get() handing out a 0 bit when the source is exhausted.
IoBuffer_get_zero(io, avail) ==
    LET refill == io.input_buf.offset = INITIAL_OFFSET
        byte == IF refill THEN (IF avail = <<>> THEN 0 ELSE Head(avail))
                ELSE io.input_buf.buffer
        offset == io.input_buf.offset + 1
    IN  [res |-> Ok(BitAt(byte, io.input_buf.offset)),
         io |-> [io EXCEPT !.input_buf =
                   IF offset = LAST_OFFSET THEN BitBuffer_new
                   ELSE [buffer |-> byte, offset |-> offset]],
         read |-> IF refill /\ avail # <<>> THEN <<byte>> ELSE <<>>]

\* get() reading a byte from the source at every call.
IoBuffer_get_every(io, avail) ==
    IF avail = <<>>
    THEN [res |-> Err("Io"), io |-> io, read |-> <<>>]
    ELSE [res |-> Ok(BitAt(Head(avail), io.input_buf.offset)),
          io |-> [io EXCEPT !.input_buf =
                    IF io.input_buf.offset + 1 = LAST_OFFSET THEN BitBuffer_new
                    ELSE [buffer |-> Head(avail), offset |-> io.input_buf.offset + 1]],
          read |-> <<Head(avail)>>]

\* IoBuffer::get against a source that still delivers the bytes `avail` and
\* is exhausted after them.  `read` is what the call took from the source.
IoBuffer_get(io, avail) ==
    LET refill == io.input_buf.offset = INITIAL_OFFSET
        byte == IF refill THEN Head(avail) ELSE io.input_buf.buffer
        offset == io.input_buf.offset + 1
    IN  IF refill /\ avail = <<>>
        THEN [res |-> Err("Io"), io |-> io, read |-> <<>>]
        ELSE [res |-> Ok(BitAt(byte, io.input_buf.offset)),
              io |-> [io EXCEPT !.input_buf =
                        IF offset = LAST_OFFSET THEN BitBuffer_new
                        ELSE [buffer |-> byte, offset |-> offset]],
              read |-> IF refill THEN <<byte>> ELSE <<>>]

\* put() that resets the offset of the register and keeps its byte.
IoBuffer_put_stale(io, bit) ==
    LET byte == OrBit(io.output_buf.buffer, IF bit THEN 1 ELSE 0, io.output_buf.offset)
        offset == io.output_buf.offset + 1
    IN  [res |-> Ok(TRUE),
         io |-> [io EXCEPT !.output_buf =
                    [buffer |-> byte,
                     offset |-> IF offset = LAST_OFFSET THEN INITIAL_OFFSET ELSE offset]],
         written |-> IF offset = LAST_OFFSET THEN <<byte>> ELSE <<>>]

\* IoBuffer::put; `written` is what the call wrote to the sink.
IoBuffer_put(io, bit) ==
    LET byte == OrBit(io.output_buf.buffer, IF bit THEN 1 ELSE 0, io.output_buf.offset)
        offset == io.output_buf.offset + 1
    IN  IF offset = LAST_OFFSET
        THEN [res |-> Ok(TRUE), io |-> [io EXCEPT !.output_buf = BitBuffer_new],
              written |-> <<byte>>]
        ELSE [res |-> Ok(TRUE),
              io |-> [io EXCEPT !.output_buf = [buffer |-> byte, offset |-> offset]],
              written |-> <<>>]

\* IoBuffer::put on a sink that refuses the byte: write_all fails after the
\* bit was stored and the offset advanced, and the register is not reset.
IoBuffer_put_refused(io, bit) ==
    LET byte == OrBit(io.output_buf.buffer, IF bit THEN 1 ELSE 0, io.output_buf.offset)
        offset == io.output_buf.offset + 1
    IN  [res |-> Err("Io"),
         io |-> [io EXCEPT !.output_buf = [buffer |-> byte, offset |-> offset]],
         written |-> <<>>]

(***************************************************************************)
(* mosaic.rs: Program                                                      *)
(***************************************************************************)
\* An Input domino one of whose alternates differs from the main tile on
\* north, east or west.
BadAlts(domino) ==
    /\ domino.side_effect.tag = "In"
    /\ \E k \in 1..2 : \E dir \in {"North", "East", "West"} :
          cardinal(domino.side_effect.alts[k], dir) # cardinal(domino.tile, dir)

\* The neighbour check on the western side only.
Mismatched_west(border_tile, initial, i) ==
    LET pred == IF i > 1 THEN initial[i - 1] ELSE border_tile
    IN  cardinal(initial[i], "West") # cardinal(pred, "East")

\* An initial tile that does not match its neighbours (the border at the ends).
Mismatched(border_tile, initial, i) ==
    LET pred == IF i > 1 THEN initial[i - 1] ELSE border_tile
        succ == IF i < Len(initial) THEN initial[i + 1] ELSE border_tile
    IN  \/ cardinal(initial[i], "West") # cardinal(pred, "East")
        \/ cardinal(initial[i], "East") # cardinal(succ, "West")

\* Program::new with the emptiness check ahead of the size check.
Program_new_reordered(args) ==
    LET tiles == DominoPile_new(args.set)
        initial == args.initial
    IN  IF Len(initial) = 0 THEN Err("EmptyInitialState")
        ELSE IF Len(args.set) + args.extra >= UNALLOCATED_PIP THEN Err("TooManyTiles")
        ELSE IF \E i \in DOMAIN args.set : BadAlts(args.set[i]) THEN Err("InvalidInputAlts")
        ELSE IF get(tiles, args.border) = {} THEN Err("InvalidTileBorder")
        ELSE IF \E i \in DOMAIN initial : get(tiles, initial[i]) = {} THEN Err("InvalidTile")
        ELSE IF \E i \in DOMAIN initial : Mismatched(args.border, initial, i)
             THEN Err("InvalidInitialTile")
        ELSE Ok([pile |-> tiles,
                 border |-> tiles.as_ref[args.border],
                 io |-> IoBuffer_new,
                 state |-> [i \in DOMAIN initial |-> tiles.as_ref[initial[i]]]])

\* Program::new(set, border_tile, initial).  args.set is the hash set in its
\* iteration order and args.extra counts further dominoes of the set that
\* are left out of args.set: set.len() is Len(args.set) + args.extra.
Program_new(args) ==
    LET tiles == DominoPile_new(args.set)
        initial == args.initial
    IN  IF Len(args.set) + args.extra >= UNALLOCATED_PIP THEN Err("TooManyTiles")
        ELSE IF Len(initial) = 0 THEN Err("EmptyInitialState")
        ELSE IF \E i \in DOMAIN args.set : BadAlts(args.set[i]) THEN Err("InvalidInputAlts")
        ELSE IF get(tiles, args.border) = {} THEN Err("InvalidTileBorder")
        ELSE IF \E i \in DOMAIN initial : get(tiles, initial[i]) = {} THEN Err("InvalidTile")
        ELSE IF \E i \in DOMAIN initial : Mismatched(args.border, initial, i)
             THEN Err("InvalidInitialTile")
        ELSE Ok([pile |-> tiles,
                 border |-> tiles.as_ref[args.border],
                 io |-> IoBuffer_new,
                 state |-> [i \in DOMAIN initial |-> tiles.as_ref[initial[i]]]])

\* Program::state
BoardState(pile, state) == [i \in DOMAIN state |-> TileOf(pile, state[i])]

\* perform_io from cell i on.  acc carries the row built so far, the bit
\* buffer, the bytes the source still delivers, and what was read and written.
RECURSIVE perform_io_from(_, _, _, _)
perform_io_from(pile, state, i, acc) ==
    IF i > Len(state) THEN [acc EXCEPT !.res = Ok(acc.next)]
    ELSE LET r == state[i]
             effect == get_side_effects(pile, r)
         IN  CASE effect.tag = "Out" ->
                    LET p == IoBuffer_put(acc.io, effect.bit)
                    IN  perform_io_from(pile, state, i + 1,
                            [acc EXCEPT !.io = p.io,
                                        !.written = acc.written \o p.written,
                                        !.next = Append(acc.next, r)])
               [] effect.tag = "In" ->
                    LET g == IoBuffer_get(acc.io, acc.avail)
                    IN  IF g.res.tag = "Err"
                        THEN [acc EXCEPT !.res = Err("Io"), !.eof = TRUE]
                        ELSE perform_io_from(pile, state, i + 1,
                                [acc EXCEPT !.io = g.io,
                                            !.avail = SubSeq(acc.avail, Len(g.read) + 1,
                                                             Len(acc.avail)),
                                            !.read = acc.read \o g.read,
                                            !.next = Append(acc.next,
                                                IF g.res.val THEN effect.alts[2]
                                                ELSE effect.alts[1])])
               [] effect.tag = "Pure" ->
                    perform_io_from(pile, state, i + 1,
                        [acc EXCEPT !.next = Append(acc.next, r)])
               [] OTHER -> [acc EXCEPT !.res = Panic]

\* perform_io visiting the cells from east to west.
perform_io_reversed(pile, io, state, avail) ==
    LET reversed == [i \in DOMAIN state |-> state[(Len(state) + 1) - i]]
        r == perform_io_from(pile, reversed, 1,
                [res |-> Ok(<<>>), next |-> <<>>, io |-> io, avail |-> avail,
                 read |-> <<>>, written |-> <<>>, eof |-> FALSE])
    IN  IF r.res.tag # "Ok" THEN r
        ELSE [r EXCEPT !.res = Ok([i \in DOMAIN state |-> r.res.val[(Len(state) + 1) - i]])]

\* perform_io leaving the Output cells out of the row it returns.
perform_io_dropping(pile, io, state, avail) ==
    LET r == perform_io_from(pile, state, 1,
                [res |-> Ok(<<>>), next |-> <<>>, io |-> io, avail |-> avail,
                 read |-> <<>>, written |-> <<>>, eof |-> FALSE])
    IN  IF r.res.tag = "Err" THEN r
        ELSE [r EXCEPT !.res = Ok(SelectSeq(r.res.val,
                    LAMBDA x : get_side_effects(pile, x).tag # "Out"))]

perform_io(pile, io, state, avail) ==
    perform_io_from(pile, state, 1,
        [res |-> Ok(<<>>), next |-> <<>>, io |-> io, avail |-> avail,
         read |-> <<>>, written |-> <<>>, eof |-> FALSE])

(***************************************************************************)
(* wmach.rs: instructions                                                  *)
(***************************************************************************)
Write(value) == [op |-> "Write", value |-> value]
Seek(direction) == [op |-> "Seek", direction |-> direction]
Io(rw) == [op |-> "Io", rw |-> rw]
Jmp(branch_t, branch_f) == [op |-> "Jmp", t |-> branch_t, f |-> branch_f]
Debug == [op |-> "Debug"]

\* Stmt::Label and the two kinds of Target; Stmt::Jmp is Jmp over Targets.
Label(label_id) == [op |-> "Label", label |-> label_id]
NextAddress == [tag |-> "NextAddress"]
Name(label_id) == [tag |-> "Name", label |-> label_id]

DuplicateLabel(label) == [tag |-> "Err", err |-> "DuplicateLabel", label |-> label]
UnknownTarget(offset, target) ==
    [tag |-> "Err", err |-> "UnknownTarget", offset |-> offset, target |-> target]

\* The jump table with labels counted as instructions: a label names the
\* number of statements before it.
jmp_table_counting(statements) ==
    LET at(l) == {q \in DOMAIN statements : statements[q] = Label(l)}
        defined == {statements[q].label :
                        q \in {p \in DOMAIN statements : statements[p].op = "Label"}}
    IN  IF \E l \in defined : Cardinality(at(l)) > 1
        THEN DuplicateLabel(CHOOSE l \in defined : Cardinality(at(l)) > 1)
        ELSE Ok([l \in defined |-> (CHOOSE q \in at(l) : TRUE) - 1])

\* from_str, first loop: a label names the offset of the instruction that
\* follows it; a label met twice is an error.
RECURSIVE make_jmp_table(_, _, _)
make_jmp_table(statements, table, offset) ==
    IF statements = <<>> THEN Ok(table)
    ELSE LET stmt == Head(statements)
         IN  IF stmt.op = "Label"
             THEN IF stmt.label \in DOMAIN table
                  THEN DuplicateLabel(stmt.label)
                  ELSE make_jmp_table(Tail(statements),
                                      table @@ (stmt.label :> offset), offset)
             ELSE make_jmp_table(Tail(statements), table, offset + 1)

jmp_table(statements) == make_jmp_table(statements, [l \in {} |-> 0], 0)

\* target_address sending an unknown label to the first instruction.
target_address_lenient(branch, offset, table) ==
    IF branch.tag = "NextAddress" THEN Ok(offset + 1)
    ELSE IF branch.label \in DOMAIN table THEN Ok(table[branch.label])
    ELSE Ok(0)

\* The closure target_address of from_str.
target_address(branch, offset, table) ==
    IF branch.tag = "NextAddress" THEN Ok(offset + 1)
    ELSE IF branch.label \in DOMAIN table THEN Ok(table[branch.label])
    ELSE UnknownTarget(offset, branch)

\* from_str, second loop over the statements that are not labels, from the
\* one at `offset` on: the true branch is resolved before the false one.
RECURSIVE make_insns(_, _, _, _)
make_insns(statements, offset, table, insns) ==
    IF statements = <<>> THEN Ok(insns)
    ELSE LET stmt == Head(statements)
             t == target_address(stmt.t, offset, table)
             f == target_address(stmt.f, offset, table)
         IN  IF stmt.op # "Jmp"
             THEN make_insns(Tail(statements), offset + 1, table, Append(insns, stmt))
             ELSE IF t.tag = "Err" THEN t
             ELSE IF f.tag = "Err" THEN f
             ELSE make_insns(Tail(statements), offset + 1, table,
                             Append(insns, Jmp(t.val, f.val)))

\* wmach::Program::from_str on parsed statements.
from_str(statements) ==
    LET table == jmp_table(statements)
        insns == make_insns(SelectSeq(statements, LAMBDA stmt : stmt.op # "Label"),
                            0, table.val, <<>>)
    IN  IF table.tag = "Err" THEN table
        ELSE IF insns.tag = "Err" THEN insns
        ELSE Ok([instructions |-> insns.val, labels |-> table.val])

(***************************************************************************)
(* mosaic.rs: the compiler from W-machine to Wang tiles                    *)
(***************************************************************************)
BASE_OFFSET == 1

\* std::usize::MAX, written as the two's complement word -1: the pip is only
\* compared for equality and lies above every other pip of a compiled pile.
unique_magic == -1

\* 0xdead
south_u == 57005

\* mk_write that clears the cell whatever the value to write.
mk_write_unset(position, value) ==
    LET north_0 == pip_from_components(position, 0)
        north_1 == pip_from_components(position, 1)
        south == pip_from_components(position + 1, 0)
    IN  <<Domino_pure(Tile_new(north_0, EMPTY_PIP, south, EMPTY_PIP)),
          Domino_pure(Tile_new(north_1, EMPTY_PIP, south, EMPTY_PIP))>>

\* mk_write with each tile keeping the value of its north pip.
mk_write_keep(position, value) ==
    LET north_0 == pip_from_components(position, 0)
        north_1 == pip_from_components(position, 1)
    IN  <<Domino_pure(Tile_new(north_0, EMPTY_PIP,
                               pip_from_components(position + 1, 0), EMPTY_PIP)),
          Domino_pure(Tile_new(north_1, EMPTY_PIP,
                               pip_from_components(position + 1, 1), EMPTY_PIP))>>

mk_write(position, value) ==
    LET north_0 == pip_from_components(position, 0)
        north_1 == pip_from_components(position, 1)
        south == IF value = "Unset" THEN pip_from_components(position + 1, 0)
                 ELSE pip_from_components(position + 1, 1)
    IN  <<Domino_pure(Tile_new(north_0, EMPTY_PIP, south, EMPTY_PIP)),
          Domino_pure(Tile_new(north_1, EMPTY_PIP, south, EMPTY_PIP))>>

mk_seek(position, direction) ==
    LET bind == position
        north_0 == pip_from_components(position, 0)
        north_1 == pip_from_components(position, 1)
        entry_east == IF direction = "Left" THEN EMPTY_PIP ELSE bind
        entry_west == IF direction = "Left" THEN bind ELSE EMPTY_PIP
        east == IF direction = "Left" THEN bind ELSE EMPTY_PIP
        west == IF direction = "Left" THEN EMPTY_PIP ELSE bind
        south_0 == pip_from_components(position + 1, 0)
        south_1 == pip_from_components(position + 1, 1)
    IN  <<Domino_pure(Tile_new(north_0, entry_east, ZERO_PIP, entry_west)),
          Domino_pure(Tile_new(north_1, entry_east, ONE_PIP, entry_west)),
          Domino_pure(Tile_new(ZERO_PIP, east, south_0, west)),
          Domino_pure(Tile_new(ONE_PIP, east, south_1, west)),
          Domino_pure(Tile_new(UNALLOCATED_PIP, east, south_0, west))>>

mk_io(position, rw) ==
    LET north_0 == pip_from_components(position, 0)
        north_1 == pip_from_components(position, 1)
        east == EMPTY_PIP
        west == EMPTY_PIP
        south_0 == pip_from_components(position + 1, 0)
        south_1 == pip_from_components(position + 1, 1)
    IN  IF rw = "In"
        THEN <<Domino_input(Tile_new(north_0, east, south_u, west),
                            <<Tile_new(north_0, east, south_0, west),
                              Tile_new(north_0, east, south_1, west)>>),
               Domino_input(Tile_new(north_1, east, south_u, west),
                            <<Tile_new(north_1, east, south_0, west),
                              Tile_new(north_1, east, south_1, west)>>)>>
        ELSE <<Domino_output(Tile_new(north_0, east, south_0, west), FALSE),
               Domino_output(Tile_new(north_1, east, south_1, west), TRUE)>>

\* mk_jmp with the two branch targets exchanged.
mk_jmp_swapped(position, br_t, br_f) ==
    LET north_0 == pip_from_components(position, 0)
        north_1 == pip_from_components(position, 1)
        south_0 == pip_from_components(br_t + BASE_OFFSET, 0)
        south_1 == pip_from_components(br_f + BASE_OFFSET, 1)
    IN  <<Domino_pure(Tile_new(north_0, EMPTY_PIP, south_0, EMPTY_PIP)),
          Domino_pure(Tile_new(north_1, EMPTY_PIP, south_1, EMPTY_PIP))>>

\* mk_jmp with the branch targets taken as positions, BASE_OFFSET left out.
mk_jmp_unbased(position, br_t, br_f) ==
    LET north_0 == pip_from_components(position, 0)
        north_1 == pip_from_components(position, 1)
        south_0 == pip_from_components(br_f, 0)
        south_1 == pip_from_components(br_t, 1)
    IN  <<Domino_pure(Tile_new(north_0, EMPTY_PIP, south_0, EMPTY_PIP)),
          Domino_pure(Tile_new(north_1, EMPTY_PIP, south_1, EMPTY_PIP))>>

mk_jmp(position, br_t, br_f) ==
    LET north_0 == pip_from_components(position, 0)
        north_1 == pip_from_components(position, 1)
        south_0 == pip_from_components(br_f + BASE_OFFSET, 0)
        south_1 == pip_from_components(br_t + BASE_OFFSET, 1)
    IN  <<Domino_pure(Tile_new(north_0, EMPTY_PIP, south_0, EMPTY_PIP)),
          Domino_pure(Tile_new(north_1, EMPTY_PIP, south_1, EMPTY_PIP))>>

west_alcove == Tile_new(UNALLOCATED_PIP, EMPTY_PIP, UNALLOCATED_PIP, UNALLOCATED_PIP)
east_alcove == Tile_new(UNALLOCATED_PIP, UNALLOCATED_PIP, UNALLOCATED_PIP, EMPTY_PIP)
persist_0 == Tile_new(ZERO_PIP, EMPTY_PIP, ZERO_PIP, EMPTY_PIP)
persist_1 == Tile_new(ONE_PIP, EMPTY_PIP, ONE_PIP, EMPTY_PIP)
void_border ==
    Tile_new(UNALLOCATED_PIP, UNALLOCATED_PIP, UNALLOCATED_PIP, UNALLOCATED_PIP)
initial_head ==
    Tile_new(UNALLOCATED_PIP, unique_magic, pip_from_components(BASE_OFFSET, 0), unique_magic)
initial_west == Tile_new(UNALLOCATED_PIP, unique_magic, EMPTY_PIP, UNALLOCATED_PIP)
initial_east == Tile_new(UNALLOCATED_PIP, UNALLOCATED_PIP, EMPTY_PIP, unique_magic)

\* The translation of an instruction as if every instruction sat at
\* BASE_OFFSET.
translate_unplaced(i, insn) ==
    CASE insn.op = "Write" -> mk_write(BASE_OFFSET, insn.value)
      [] insn.op = "Seek" -> mk_seek(BASE_OFFSET, insn.direction)
      [] insn.op = "Io" -> mk_io(BASE_OFFSET, insn.rw)
      [] insn.op = "Jmp" -> mk_jmp(BASE_OFFSET, insn.t, insn.f)

translate(i, insn) ==
    CASE insn.op = "Write" -> mk_write(i, insn.value)
      [] insn.op = "Seek" -> mk_seek(i, insn.direction)
      [] insn.op = "Io" -> mk_io(i, insn.rw)
      [] insn.op = "Jmp" -> mk_jmp(i, insn.t, insn.f)

\* The arguments compile hands to Program::new.  The Vec of dominoes goes
\* through a hash set, which keeps one copy of each.
compile_args(instructions) ==
    LET tiles == <<west_alcove, east_alcove, persist_0, persist_1, void_border,
                   initial_head, initial_west, initial_east>>
        set == [i \in DOMAIN tiles |-> Domino_pure(tiles[i])]
        translated == Flatten([i \in DOMAIN instructions |->
                         translate((i - 1) + BASE_OFFSET, instructions[i])])
    IN  [set |-> Dedup(set \o translated),
         extra |-> 0,
         border |-> void_border,
         initial |-> <<initial_west, initial_head, initial_east>>]

\* compile: todo!() panics on Debug.
compile(instructions) ==
    IF \E i \in DOMAIN instructions : instructions[i].op = "Debug" THEN Panic
    ELSE Program_new(compile_args(instructions))

(***************************************************************************)
(* mosaic.rs: Program::step                                                *)
(***************************************************************************)
\* The row assigned before perform_io has succeeded.
step_commit_early(state, evolved, r) ==
    IF r.res.tag = "Ok" THEN r.res.val ELSE evolved

\* What step() leaves behind once the evolver has given `evolved` and
\* perform_io has given r: self.state is assigned only when both succeeded.
step_commit(state, evolved, r) ==
    IF r.res.tag = "Ok" THEN r.res.val ELSE state

\* step() that has given up the last cell of the row when the evolver
\* fails.
step_truncating(p_pile, p_border, p_io, p_state, avails) ==
    LET quiet(res, avail) ==
            [res |-> res,
             state |-> IF res.tag = "Err" THEN SubSeq(p_state, 1, Len(p_state) - 1)
                       ELSE p_state,
             io |-> p_io, read |-> <<>>,
             written |-> <<>>, eof |-> FALSE, unread |-> avail]
        after(evolved, avail) ==
            IF evolved.tag = "Err" THEN quiet(evolved, avail)
            ELSE LET r == perform_io(p_pile, p_io, evolved.val, avail)
                 IN  [res |-> IF r.res.tag = "Ok" THEN Ok(TRUE) ELSE r.res,
                      state |-> step_commit(p_state, evolved.val, r),
                      io |-> r.io, read |-> r.read, written |-> r.written,
                      eof |-> r.eof, unread |-> r.avail]
        evolveds == to_vec(p_pile, p_border, p_state)
    IN  IF Panics(p_pile, Row_new_refs(p_pile, p_border, p_state)) # {}
        THEN {quiet(Panic, avail) : avail \in avails}
        ELSE UNION {{after(evolved, avail) : avail \in avails} : evolved \in evolveds}

\* Every outcome of step(), for each of the byte sequences `avails` the
\* input source may still deliver: the result, the row and the bit buffer
\* afterwards, the bytes read and written, the bytes delivered and not
\* read, and whether the end of the input was hit.
step(p_pile, p_border, p_io, p_state, avails) ==
    LET quiet(res, avail) ==
            [res |-> res, state |-> p_state, io |-> p_io, read |-> <<>>,
             written |-> <<>>, eof |-> FALSE, unread |-> avail]
        after(evolved, avail) ==
            IF evolved.tag = "Err" THEN quiet(evolved, avail)
            ELSE LET r == perform_io(p_pile, p_io, evolved.val, avail)
                 IN  [res |-> IF r.res.tag = "Ok" THEN Ok(TRUE) ELSE r.res,
                      state |-> step_commit(p_state, evolved.val, r),
                      io |-> r.io, read |-> r.read, written |-> r.written,
                      eof |-> r.eof, unread |-> r.avail]
        evolveds == to_vec(p_pile, p_border, p_state)
    IN  IF Panics(p_pile, Row_new_refs(p_pile, p_border, p_state)) # {}
        THEN {quiet(Panic, avail) : avail \in avails}
        ELSE UNION {{after(evolved, avail) : avail \in avails} : evolved \in evolveds}

(***************************************************************************)
(* The W-machine the compiler is to simulate (specification, section 4.5)  *)
(***************************************************************************)
\* A machine state: program counter, head position, the cells holding 1,
\* the number of input bits taken and the bits put out.  `stuck` is set
\* when an instruction was asked for that cannot run.
WmInit == [pc |-> 0, head |-> 0, ones |-> {}, nread |-> 0, out |-> <<>>, stuck |-> FALSE]

WmCell(w) == IF w.head \in w.ones THEN 1 ELSE 0

WmWrite(w, bit) ==
    IF bit = 1 THEN w.ones \cup {w.head} ELSE w.ones \ {w.head}

WmStep(instructions, w, bits) ==
    IF w.stuck \/ w.pc + 1 \notin DOMAIN instructions THEN [w EXCEPT !.stuck = TRUE]
    ELSE LET insn == instructions[w.pc + 1]
         IN  CASE insn.op = "Write" ->
                    [w EXCEPT !.ones = WmWrite(w, IF insn.value = "Set" THEN 1 ELSE 0),
                              !.pc = w.pc + 1]
               [] insn.op = "Seek" ->
                    [w EXCEPT !.head = IF insn.direction = "Left" THEN w.head - 1
                                       ELSE w.head + 1,
                              !.pc = w.pc + 1]
               [] insn.op = "Io" /\ insn.rw = "Out" ->
                    [w EXCEPT !.out = Append(w.out, WmCell(w)), !.pc = w.pc + 1]
               [] insn.op = "Io" /\ insn.rw = "In" ->
                    IF w.nread + 1 \notin DOMAIN bits THEN [w EXCEPT !.stuck = TRUE]
                    ELSE [w EXCEPT !.ones = WmWrite(w, bits[w.nread + 1]),
                                   !.nread = w.nread + 1,
                                   !.pc = w.pc + 1]
               [] insn.op = "Jmp" ->
                    [w EXCEPT !.pc = IF WmCell(w) = 1 THEN insn.t ELSE insn.f]
               [] OTHER -> [w EXCEPT !.stuck = TRUE]

RECURSIVE WmRun(_, _, _)
WmRun(instructions, bits, k) ==
    IF k = 0 THEN WmInit
    ELSE LET before == WmRun(instructions, bits, k - 1)
         IN  WmStep(instructions, before, bits)

\* The bits of a byte stream, bit 0 of each byte first (section 6).
BitsOf(bytes) ==
    [k \in 1..(8 * Len(bytes)) |-> (bytes[((k - 1) \div 8) + 1] \div Pow2((k - 1) % 8)) % 2]

(***************************************************************************)
(* The inputs of the model                                                 *)
(***************************************************************************)
Insns(n) ==
    {Write("Set"), Write("Unset"), Seek("Left"), Seek("Right"), Io("In"), Io("Out")}
        \cup {Jmp(t, f) : t \in 0..n, f \in 0..n}

\* Programs longer than MaxProgLen that the scenarios of the specification
\* and the seeks into the void need.
SeedPrograms ==
    {<<Seek("Left"), Seek("Left"), Seek("Left")>>,
     <<Seek("Right"), Seek("Right"), Seek("Right")>>,
     <<Io("In"), Io("Out"), Jmp(0, 0)>>,
     <<Io("In"), Seek("Right"), Write("Set"), Io("Out"), Seek("Left"), Jmp(0, 6)>>}

Programs == SeedPrograms \cup UNION {[1..n -> Insns(n)] : n \in 0..MaxProgLen}

\* Every stream of at most MaxInputBytes bytes.
Streams == UNION {[1..n -> InputBytes] : n \in 0..MaxInputBytes}

\* The tiles of the tests of mosaic.rs and constraint.rs.
border_0 == Tile_new(0, 0, 0, 0)
starter_tile == Tile_new(0, 0, 10, 0)
set_and_shift == Tile_new(10, 7, 1, 0)
stay_set == Tile_new(1, 0, 1, 0)
shift_and_repeat == Tile_new(0, 0, 10, 7)
bad_starter_tile == Tile_new(0, 0, 2989, 0)
extra_1 == Tile_new(1, 1, 1, 1)
left == Tile_new(0, 1, 0, 0)
right == Tile_new(0, 2989, 0, 1)

Pures(tiles) == [i \in DOMAIN tiles |-> Domino_pure(tiles[i])]

\* set_and_shift_program, successor_row
SetAndShiftSet ==
    Pures(<<border_0, starter_tile, set_and_shift, stay_set, shift_and_repeat>>)
\* impossible_constraints
ImpossibleSet ==
    Pures(<<border_0, bad_starter_tile, set_and_shift, stay_set, shift_and_repeat>>)
\* verify_alts
BadAltsSet ==
    <<Domino_pure(border_0),
      Domino_input(Tile_new(1, 1, 0, 1), <<Tile_new(1, 2989, 0, 1), Tile_new(1, 1, 0, 1)>>)>>
\* verify_border_check
NoBorderSet == Pures(<<extra_1>>)
\* check_empty_state, verify_initial_tiles_preset
BorderOnlySet == Pures(<<border_0>>)
\* verify_initial_tiles
LeftRightSet == Pures(<<border_0, left, right, extra_1>>)
\* A machine whose clouds keep two candidates each after the sweep.
ForkSet ==
    Pures(<<border_0, starter_tile, Tile_new(10, 1, 10, 0), Tile_new(10, 2, 10, 0),
            Tile_new(0, 0, 10, 1), Tile_new(0, 0, 10, 2)>>)
\* A machine that reads a bit into every cell and writes it out on the next row.
EchoSet ==
    <<Domino_pure(border_0), Domino_pure(starter_tile),
      Domino_input(Tile_new(10, 0, 77, 0), <<Tile_new(10, 0, 20, 0), Tile_new(10, 0, 21, 0)>>),
      Domino_output(Tile_new(20, 0, 10, 0), FALSE),
      Domino_output(Tile_new(21, 0, 10, 0), TRUE)>>

\* An Input domino whose first alternate is its own tile: the alternates
\* differ from the main tile in the south pip at most.
ShadowSet ==
    <<Domino_pure(border_0), Domino_pure(starter_tile),
      Domino_input(Tile_new(10, 0, 77, 0), <<Tile_new(10, 0, 77, 0), Tile_new(10, 0, 21, 0)>>),
      Domino_output(Tile_new(21, 0, 10, 0), TRUE)>>

TileSets ==
    {SetAndShiftSet, ImpossibleSet, BadAltsSet, NoBorderSet, BorderOnlySet, LeftRightSet,
     ForkSet, EchoSet, ShadowSet}

BorderTiles == {border_0, extra_1}
InitialTiles == {border_0, starter_tile, bad_starter_tile, extra_1, left, right}
Initials == UNION {[1..n -> InitialTiles] : n \in 0..2}

\* The sizes of the hash set: the dominoes written out, or as many more
\* as bring set.len() to UNALLOCATED_PIP - 1 and to UNALLOCATED_PIP.
Extras(set) == {0, (UNALLOCATED_PIP - 1) - Len(set), UNALLOCATED_PIP - Len(set)}

NewArgs ==
    {[set |-> set, extra |-> extra, border |-> b, initial |-> initial] :
        set \in TileSets, extra \in {0}, b \in BorderTiles, initial \in Initials}
    \cup UNION {{[set |-> set, extra |-> extra, border |-> border_0, initial |-> initial] :
                    extra \in Extras(set),
                    initial \in {<<>>, <<border_0>>, <<starter_tile>>, <<extra_1>>}} :
                set \in {SetAndShiftSet, EchoSet, BadAltsSet}}

NoArgs == [set |-> <<>>, extra |-> 0, border |-> <<>>, initial |-> <<>>]
NoPile == DominoPile_new(<<>>)

(***************************************************************************)
(* The state machine                                                       *)
(***************************************************************************)
VARIABLES
    code,       \* wmach::Program.instructions, the source of a compiled Program
    args,       \* the arguments of a direct Program::new call
    pile,       \* Program.pile
    border,     \* Program.border
    state,      \* Program.state
    io,         \* Program.io
    stdin,      \* the input stream: the bytes read so far, end of stream seen
    stdout,     \* the bytes written to the sink
    result,     \* what the last call returned
    pc,         \* "source", "args": before construction; "run"; "rejected"; "aborted"
    nsteps,     \* successful step() calls so far
    text,       \* the statements handed to wmach::Program::from_str
    calls,      \* the calls made on an IoBuffer held directly, with their results
    mosaic,     \* Calcada.mosaic
    certificate \* what the last call of Calcada::compute returned

vars == <<code, args, pile, border, state, io, stdin, stdout, result, pc, nsteps,
          text, calls, mosaic, certificate>>

Unbuilt ==
    /\ pile = NoPile
    /\ border = 0
    /\ state = <<>>
    /\ io = IoBuffer_new
    /\ stdin = [read |-> <<>>, eof |-> FALSE]
    /\ stdout = <<>>
    /\ result = "None"
    /\ nsteps = 0
    /\ calls = <<>>
    /\ mosaic = <<>>
    /\ certificate = <<>>

\* A W-machine program about to be compiled.
InitSource ==
    /\ pc = "source"
    /\ code \in Programs
    /\ args = NoArgs
    /\ text = <<>>
    /\ Unbuilt

\* A tile set, a border and an initial row about to be given to Program::new.
InitArgs ==
    /\ pc = "args"
    /\ code = <<>>
    /\ args \in NewArgs
    /\ text = <<>>
    /\ Unbuilt

Construct(built) ==
    IF built.tag = "Ok"
    THEN /\ pile' = built.val.pile
         /\ border' = built.val.border
         /\ state' = built.val.state
         /\ io' = built.val.io
         /\ result' = "Ok"
         /\ pc' = "run"
    ELSE /\ result' = (IF built.tag = "Panic" THEN "Panic" ELSE built.err)
         /\ pc' = (IF built.tag = "Panic" THEN "aborted" ELSE "rejected")
         /\ UNCHANGED <<pile, border, state, io>>

\* wmach::Program::compile
Compile ==
    /\ pc = "source"
    /\ Construct(compile(code))
    /\ UNCHANGED <<code, args, stdin, stdout, nsteps, text, calls, mosaic, certificate>>

\* Program::new
New ==
    /\ pc = "args"
    /\ Construct(Program_new(args))
    /\ UNCHANGED <<code, args, stdin, stdout, nsteps, text, calls, mosaic, certificate>>

\* The byte sequences the input stream can still deliver: none once its
\* end was seen, and no more than MaxInputBytes in all.
Deliverable ==
    {avail \in Streams :
        /\ stdin.eof => avail = <<>>
        /\ Len(stdin.read) + Len(avail) <= MaxInputBytes}

\* Program::step.  The environment decides which bytes the input stream
\* delivers to the call before it is exhausted; a Program whose set was
\* not written out in full (args.extra > 0) is constructed and not run.
Step ==
    /\ pc = "run"
    /\ args.extra = 0
    /\ nsteps < MaxSteps
    /\ \E o \in step(pile, border, io, state, Deliverable) :
         /\ o.unread = <<>>
         /\ state' = o.state
         /\ io' = o.io
         /\ stdin' = [read |-> stdin.read \o o.read, eof |-> stdin.eof \/ o.eof]
         /\ stdout' = stdout \o o.written
         /\ result' = (IF o.res.tag = "Ok" THEN "Ok"
                       ELSE IF o.res.tag = "Panic" THEN "Panic" ELSE o.res.err)
         /\ pc' = (IF o.res.tag = "Panic" THEN "aborted" ELSE pc)
         /\ nsteps' = (IF o.res.tag = "Ok" THEN nsteps + 1 ELSE nsteps)
    /\ UNCHANGED <<code, args, pile, border, text, calls, mosaic, certificate>>

Init == InitSource \/ InitArgs

Next == Compile \/ New \/ Step

Spec == Init /\ [][Next]_vars

(***************************************************************************)
(* An IoBuffer held directly, as the tests of io_buffer.rs hold it         *)
(***************************************************************************)
IoStreams == UNION {[1..n -> IoBytes] : n \in 0..MaxIoBytes}

\* What the source can deliver to one call of get(): nothing once it is
\* exhausted, and no more than MaxIoBytes bytes in all.
IoDeliverable ==
    {avail \in IoStreams :
        /\ stdin.eof => avail = <<>>
        /\ Len(stdin.read) + Len(avail) <= MaxIoBytes}

\* IoBuffer::with_io, by a caller that will only get (get_byte) or only put
\* (put_byte).
InitIo ==
    /\ pc \in {"get", "put"}
    /\ code = <<>>
    /\ args = NoArgs
    /\ text = <<>>
    /\ Unbuilt

\* One call of get(); the source delivers exactly what the call reads.
IoGet ==
    /\ pc = "get"
    /\ Len(calls) < MaxIoCalls
    /\ \E avail \in IoDeliverable :
         LET g == IoBuffer_get(io, avail)
             ok == g.res.tag = "Ok"
         IN  /\ avail = g.read
             /\ io' = g.io
             /\ stdin' = [read |-> stdin.read \o g.read, eof |-> stdin.eof \/ ~ok]
             /\ calls' = Append(calls, [op |-> "get", ok |-> ok,
                                        bit |-> IF ok THEN g.res.val ELSE FALSE])
             /\ result' = (IF ok THEN "Ok" ELSE g.res.err)
    /\ UNCHANGED <<code, args, pile, border, state, stdout, pc, nsteps, text, mosaic, certificate>>

\* One call of put(bit).  The sink may refuse a byte; the caller stops at
\* the first error, as put_byte and perform_io do.
IoPut ==
    /\ pc = "put"
    /\ Len(calls) < MaxIoCalls
    /\ \E bit \in BOOLEAN : \E accepted \in BOOLEAN :
         LET p == IF accepted THEN IoBuffer_put(io, bit) ELSE IoBuffer_put_refused(io, bit)
             ok == p.res.tag = "Ok"
         IN  /\ accepted \/ io.output_buf.offset + 1 = LAST_OFFSET
             /\ io' = p.io
             /\ stdout' = stdout \o p.written
             /\ calls' = Append(calls, [op |-> "put", ok |-> ok, bit |-> bit])
             /\ result' = (IF ok THEN "Ok" ELSE p.res.err)
             /\ pc' = (IF ok THEN pc ELSE "aborted")
    /\ UNCHANGED <<code, args, pile, border, state, stdin, nsteps, text, mosaic, certificate>>

IoNext == IoGet \/ IoPut

IoSpec == InitIo /\ [][IoNext]_vars

(***************************************************************************)
(* wmach.rs: from statements to instructions                               *)
(***************************************************************************)
LabelIds == {"a", "b"}

\* The statements the parser can hand over.
Stmts ==
    {Write("Set"), Seek("Right"), Io("Out"), Debug}
        \cup {Label(l) : l \in LabelIds}
        \cup {Jmp(Name(t), f) : t \in LabelIds,
                                f \in {NextAddress} \cup {Name(l) : l \in LabelIds}}

StatementLists == UNION {[1..n -> Stmts] : n \in 0..MaxStmts}

\* Statements about to be handed to from_str.
InitText ==
    /\ pc = "text"
    /\ text \in StatementLists
    /\ code = <<>>
    /\ args = NoArgs
    /\ Unbuilt

\* Program::from_str, after parse_statements.
Parse ==
    /\ pc = "text"
    /\ LET parsed == from_str(text)
       IN  IF parsed.tag = "Ok"
           THEN /\ code' = parsed.val.instructions
                /\ result' = "Ok"
                /\ pc' = "source"
           ELSE /\ code' = code
                /\ result' = parsed.err
                /\ pc' = "rejected"
    /\ UNCHANGED <<args, pile, border, state, io, stdin, stdout, nsteps, text, calls, mosaic, certificate>>

ParseNext == Parse

ParseSpec == InitText /\ [][ParseNext]_vars

(***************************************************************************)
(* calcada.rs: the offset Calcada::compute records for each row            *)
(***************************************************************************)
\* The offset of the row Calcada::new stores for the initial state.
Calcada_new_offset == 0

\* An offset that moves west whenever the row has grown.
compute_offset_grown(prev, cur) ==
    IF Len(cur) <= 2 THEN "Panic"
    ELSE IF Len(cur) = Len(prev) THEN 0 ELSE -1

\* An offset that never moves west.
compute_offset_east(prev, cur) ==
    IF Len(cur) <= 2 THEN "Panic" ELSE 0

\* The change of offset compute() works out for the row `cur` that
\* follows the row `prev`: none when the lengths agree, otherwise -1 when
\* the second tile of the new row does not sit on the second tile of the
\* old one.  The assertion on the length panics.
compute_offset(prev, cur) ==
    IF Len(cur) <= 2 THEN "Panic"
    ELSE IF Len(cur) = Len(prev) THEN 0
    ELSE IF prev[2][3] # cur[2][1] THEN -1 ELSE 0

\* Program::border() is called by get_tile and defined nowhere in src/: it
\* is taken to return the tile of Program.border.
Program_border == TileOf(pile, border)

Some(val) == [tag |-> "Some", val |-> val]
None == [tag |-> "None"]

\* `as usize` of an i32: a negative number wraps to a value above every Vec
\* length; it is only compared with a length.
as_usize(n) == IF n < 0 THEN 2147483647 ELSE n

\* get_tile reading every row at index `row`, whatever its offset.
get_tile_unshifted(row, col, options) ==
    LET default == IF options = "IncludeBorder" THEN Some(Program_border) ELSE None
    IN  IF col < 0 THEN default
        ELSE IF col < Len(mosaic)
        THEN IF as_usize(row) >= Len(mosaic[col + 1].tiles) THEN default
             ELSE Some(mosaic[col + 1].tiles[as_usize(row) + 1])
        ELSE None

\* Calcada::get_tile
get_tile(row, col, options) ==
    LET default == IF options = "IncludeBorder" THEN Some(Program_border) ELSE None
    IN  IF col < 0 THEN default
        ELSE IF col < Len(mosaic)
        THEN IF mosaic[col + 1].offset > 0 THEN Panic
             ELSE LET adjusted == as_usize(row - mosaic[col + 1].offset)
                      lower == mosaic[col + 1].offset
                      upper == Len(mosaic[col + 1].tiles)
                  IN  IF adjusted >= upper \/ row < lower THEN default
                      ELSE Some(mosaic[col + 1].tiles[adjusted + 1])
        ELSE None

TileRow(offset, tiles) == [offset |-> offset, tiles |-> tiles]

\* self.mosaic.push(TileRow { offset: prev_offset + offset, tiles: state })
\* written over the last row.
push_row_over(rows, offset, tiles) ==
    [rows EXCEPT ![Len(rows)] = TileRow(rows[Len(rows)].offset + offset, tiles)]

\* self.mosaic.push(TileRow { offset: prev_offset + offset, tiles: state })
push_row(rows, offset, tiles) ==
    Append(rows, TileRow(rows[Len(rows)].offset + offset, tiles))

\* The byte sequences an input stream in the condition `sin` can still
\* deliver.
DeliverableAt(sin) ==
    {avail \in Streams :
        /\ sin.eof => avail = <<>>
        /\ Len(sin.read) + Len(avail) <= MaxInputBytes}

\* The Calcada as the model holds it.  `invoked` counts the calls of
\* step() made since the record was taken.
Calcada_now ==
    [state |-> state, io |-> io, stdin |-> stdin, stdout |-> stdout,
     mosaic |-> mosaic, running |-> pc = "run", panicked |-> FALSE,
     nsteps |-> nsteps, invoked |-> 0]

\* The loop of Calcada::compute, from the Calcada `cal` on: every Calcada
\* it can end with.  A failing step clears `running` and leaves the loop;
\* otherwise the new row is pushed with the offset worked out from the
\* previous row.  The assertion on the row's length panics.
RECURSIVE compute(_, _)
compute(cal, col_end) ==
    IF cal.panicked \/ ~cal.running \/ Len(cal.mosaic) > col_end THEN {cal}
    ELSE UNION {
        LET ok == o.res.tag = "Ok"
            tiles == BoardState(pile, o.state)
            panics == o.res.tag = "Panic" \/ (ok /\ Len(tiles) <= 2)
            offset == compute_offset(cal.mosaic[Len(cal.mosaic)].tiles, tiles)
        IN  compute([state |-> o.state,
                     io |-> o.io,
                     stdin |-> [read |-> cal.stdin.read \o o.read,
                                eof |-> cal.stdin.eof \/ o.eof],
                     stdout |-> cal.stdout \o o.written,
                     mosaic |-> IF ok /\ ~panics THEN push_row(cal.mosaic, offset, tiles)
                                ELSE cal.mosaic,
                     running |-> ok,
                     panicked |-> panics,
                     nsteps |-> IF ok THEN cal.nsteps + 1 ELSE cal.nsteps,
                     invoked |-> cal.invoked + 1],
                    col_end)
        : o \in {q \in step(pile, border, cal.io, cal.state, DeliverableAt(cal.stdin)) :
                    q.unread = <<>>}}

\* The last columns a caller asks for: none (a negative col_end), the
\* last one computed, one column more within MaxSteps, and two columns
\* more within the first half of them.
ColEnds ==
    {0 - 1} \cup {c \in (Len(mosaic) - 1)..Len(mosaic) : c <= MaxSteps}
            \cup {c \in {Len(mosaic) + 1} : c <= MaxSteps \div 2}

\* Ok(ComputeCertificate { .. })
ComputeCertificate(row_start, row_end, col_start, col_end) ==
    [row_start |-> row_start, row_end |-> row_end,
     col_start |-> col_start, col_end |-> col_end]

\* Calcada::new over any compiled program (the repository embeds wasm.wm):
\* a compile error leaves through `?`.
Calcada_new ==
    /\ pc = "source"
    /\ LET built == compile(code)
       IN  /\ Construct(built)
           /\ mosaic' = (IF built.tag = "Ok"
                         THEN <<TileRow(Calcada_new_offset,
                                        BoardState(built.val.pile, built.val.state))>>
                         ELSE mosaic)
    /\ UNCHANGED <<code, args, stdin, stdout, nsteps, text, calls, certificate>>

\* Calcada::compute(0, 0, 0, col_end), on a Calcada that is running
\* (pc "run") or whose Program has failed a step (pc "stopped").
Calcada_compute ==
    /\ pc \in {"run", "stopped"}
    /\ \E col_end \in ColEnds : \E cal \in compute(Calcada_now, col_end) :
         /\ state' = cal.state
         /\ io' = cal.io
         /\ stdin' = cal.stdin
         /\ stdout' = cal.stdout
         /\ mosaic' = cal.mosaic
         /\ nsteps' = cal.nsteps
         /\ pc' = (IF cal.panicked THEN "aborted" ELSE IF cal.running THEN "run"
                   ELSE "stopped")
         /\ result' = (IF cal.panicked THEN "Panic" ELSE "Ok")
         /\ certificate' = (IF cal.panicked THEN certificate
                            ELSE ComputeCertificate(0, 0, 0, Len(cal.mosaic) - 1))
    /\ UNCHANGED <<code, args, pile, border, text, calls>>

CalcadaNext == Calcada_new \/ Calcada_compute

CalcadaSpec == InitSource /\ [][CalcadaNext]_vars

(***************************************************************************)
(* Reading a row of a compiled Program as a W-machine state                *)
(***************************************************************************)
Compiled == args = NoArgs

Running == pc = "run"

\* The south pips of the cells of a row of refs.
Souths(row) == [i \in DOMAIN row |-> TileOf(pile, row[i])[3]]

\* A pip made by pip_from_components from an instruction position >= 1.
IsComposite(pip) == pip >= 2 /\ pip # UNALLOCATED_PIP

\* The value a south pip gives its cell: the low bit, an alcove reading 0.
CellValue(pip) == IF pip = UNALLOCATED_PIP THEN 0 ELSE pip % 2

\* The bits given to the bit buffer so far: the bytes written and the bits
\* waiting in the output register.
EmittedBits ==
    BitsOf(stdout) \o
        [k \in 1..io.output_buf.offset |-> (io.output_buf.buffer \div Pow2(k - 1)) % 2]

\* The W-machine after as many instructions as there were successful steps,
\* fed the bits of the bytes read so far.
Reference == WmRun(code, BitsOf(stdin.read), nsteps)

\* The row shows the machine state w: one head, on the instruction w.pc, the
\* cells around it holding w's tape and every cell off the row holding 0.
Decodes(w) ==
    LET south == Souths(state)
        heads == {i \in DOMAIN south : IsComposite(south[i])}
    IN  /\ ~w.stuck
        /\ Cardinality(heads) = 1
        /\ LET h == CHOOSE i \in heads : TRUE
           IN  /\ (south[h] \div 2) - BASE_OFFSET = w.pc
               /\ \A i \in DOMAIN south :
                     CellValue(south[i]) = (IF (w.head + i) - h \in w.ones THEN 1 ELSE 0)
               /\ \A x \in w.ones : (x - w.head) + h \in DOMAIN south

\* C1: after k successful step() calls the row of a compiled Program decodes
\* to the state of the W-machine after k instructions (head, program
\* counter, tape), and the bits emitted so far are the machine's output.
C1_Simulates ==
    (Compiled /\ Running) =>
        LET w == Reference IN Decodes(w) /\ EmittedBits = w.out

\* A state of C1's case: a compiled program that has read a bit, moved the
\* head, written a cell, put out a bit and jumped.
C1_Witness ==
    /\ Compiled /\ Running /\ nsteps >= 6
    /\ LET w == Reference
       IN  /\ w.nread >= 1 /\ w.out # <<>> /\ w.pc = 0
           /\ \E x \in w.ones : x # w.head

(***************************************************************************)
(* Rows                                                                    *)
(***************************************************************************)
RowTiles == BoardState(pile, state)
BorderTile == TileOf(pile, border)

\* Every adjacent pair (a, b) of the row has a.east = b.west.
EastWestConsistent(tiles) ==
    \A i \in 1..(Len(tiles) - 1) : tiles[i][2] = tiles[i + 1][4]

\* C2: for any Program accepted by Program::new the row held after each
\* successful step has a.east = b.west for every adjacent pair (a, b),
\* whichever member select() picks.
C2_RowConsistent == Running => EastWestConsistent(RowTiles)

\* C3: every row a successful step of a compiled Program produces matches the
\* border at both ends: first.west = border.east and last.east = border.west.
C3_MatchesBorder ==
    (Compiled /\ Running /\ nsteps >= 1) =>
        /\ RowTiles[1][4] = BorderTile[2]
        /\ RowTiles[Len(RowTiles)][2] = BorderTile[4]

StepErrors == {"UnsatisfiableConstraints", "NoTilesLeft", "Io"}

\* C4: a step() that returns an error (UnsatisfiableConstraints, NoTilesLeft
\* or Io) leaves the Program's row exactly as it was before the call.
C4_ErrorKeepsRow == [][(Running /\ result' \in StepErrors) => state' = state]_vars

\* A failed step whose evolver had produced a row different from the
\* current one: the input ran out on an Input tile.
C4_Witness ==
    /\ Running /\ result = "Io" /\ stdin.eof
    /\ \E evolved \in to_vec(pile, border, state) :
          evolved.tag = "Ok" /\ evolved.val # state

\* The clouds of the next row once the propagation sweep is done.
Swept == Sweep(pile, Row_new(pile, border, state), 1)

\* C5: in every step of a compiled Program each cloud admits exactly one
\* outcome of select(), so rows and emitted bits do not depend on the
\* iteration order of the cloud's set.
C5_OneOutcome ==
    (Compiled /\ Running) =>
        LET row == Swept
        IN  \A i \in DOMAIN row : Cardinality(select(row[i])) = 1

\* A step of a compiled Program in which a cloud holds several tiles when
\* select() is called.
C5_Witness ==
    /\ Compiled /\ Running /\ nsteps >= 1 /\ result = "Ok"
    /\ \E i \in DOMAIN Swept : Cardinality(Swept[i].cloud) > 1

\* A cell whose south pip no selectable (non-hidden) tile of the pile has
\* on its north edge.
DeadCell ==
    \E i \in DOMAIN state :
        \A r \in 0..(pile.hidden_watermark - 1) :
            pile.buffer[r + 1][1] # RowTiles[i][3]

\* C6: if some cell of the current row has a south pip that no selectable
\* tile of the pile carries on its north edge, step() fails with
\* UnsatisfiableConstraints.
C6_DeadCellFails ==
    [][(Running /\ DeadCell) => result' = "UnsatisfiableConstraints"]_vars

\* impossible_constraints: the step on [bad_start] has failed.
C6_Witness ==
    /\ args.set = ImpossibleSet /\ args.initial = <<bad_starter_tile>>
    /\ Running /\ DeadCell /\ result = "UnsatisfiableConstraints"

SetAndShiftArgs ==
    [set |-> SetAndShiftSet, extra |-> 0, border |-> border_0,
     initial |-> <<starter_tile>>]

\* C7: the set-and-shift machine started on [start]: every step succeeds and
\* after k >= 1 steps the row is k - 1 copies of B, then A, then C.
C7_SetAndShift ==
    (args = SetAndShiftArgs /\ pc # "args") =>
        /\ Running /\ result = "Ok"
        /\ nsteps >= 1 =>
              RowTiles = [i \in 1..(nsteps + 1) |->
                            IF i < nsteps THEN stay_set
                            ELSE IF i = nsteps THEN set_and_shift
                            ELSE shift_and_repeat]

\* set_and_shift_program: the row after three steps.
C7_Witness ==
    /\ args = SetAndShiftArgs /\ nsteps = 3
    /\ RowTiles = <<stay_set, stay_set, set_and_shift, shift_and_repeat>>

(***************************************************************************)
(* Program::new, stated on its arguments                                   *)
(***************************************************************************)
\* The tiles of the pile: every domino's tile and every Input alternate.
ArgTiles(a) ==
    {a.set[i].tile : i \in DOMAIN a.set}
        \cup UNION {Range(a.set[i].side_effect.alts) :
                        i \in {j \in DOMAIN a.set : a.set[j].side_effect.tag = "In"}}

SizeOk(a) == Len(a.set) + a.extra < UNALLOCATED_PIP
NonEmpty(a) == a.initial # <<>>
AltsOk(a) ==
    \A i \in DOMAIN a.set :
        a.set[i].side_effect.tag = "In" =>
            \A k \in 1..2 :
                LET alt == a.set[i].side_effect.alts[k]
                    main == a.set[i].tile
                IN  alt[1] = main[1] /\ alt[2] = main[2] /\ alt[4] = main[4]
BorderPresent(a) == a.border \in ArgTiles(a)
InitialPresent(a) == \A i \in DOMAIN a.initial : a.initial[i] \in ArgTiles(a)
InitialConsistent(a) ==
    a.initial # <<>> =>
        /\ a.initial[1][4] = a.border[2]
        /\ a.initial[Len(a.initial)][2] = a.border[4]
        /\ EastWestConsistent(a.initial)

Called == ~Compiled /\ pc \in {"run", "rejected"}

\* C8: Program::new returns Ok if and only if the set's size is below
\* UNALLOCATED_PIP, initial is non-empty, the border and every initial tile
\* are in the pile, every Input alternate equals its main tile on north,
\* east and west, and initial is east/west consistent, border included.
C8_NewOkIff ==
    Called =>
        (pc = "run" <=>
            /\ SizeOk(args) /\ NonEmpty(args) /\ AltsOk(args)
            /\ BorderPresent(args) /\ InitialPresent(args) /\ InitialConsistent(args))

\* Program::new has accepted an initial row of two different tiles.
C8_Witness ==
    /\ Called /\ pc = "run" /\ Len(args.initial) = 2 /\ nsteps = 0
    /\ args.initial[1] # args.initial[2]

\* C9: a rejected Program::new names the first violated condition in the
\* order TooManyTiles, EmptyInitialState, InvalidInputAlts,
\* InvalidTileBorder, InvalidTile, InvalidInitialTile.
C9_FirstError ==
    (Called /\ pc = "rejected") =>
        result = (IF ~SizeOk(args) THEN "TooManyTiles"
                  ELSE IF ~NonEmpty(args) THEN "EmptyInitialState"
                  ELSE IF ~AltsOk(args) THEN "InvalidInputAlts"
                  ELSE IF ~BorderPresent(args) THEN "InvalidTileBorder"
                  ELSE IF ~InitialPresent(args) THEN "InvalidTile"
                  ELSE "InvalidInitialTile")

\* An initial tile both absent from the pile and at odds with its
\* neighbours is reported as InvalidTile.
C9_Witness ==
    /\ Called /\ result = "InvalidTile"
    /\ BorderPresent(args) /\ ~InitialConsistent(args)

\* The pile holds fewer than UNALLOCATED_PIP tiles: every domino's tile and
\* two alternates for every Input domino.
TileCountBelowLimit(a) ==
    LET inputs == Len(SelectSeq(a.set, LAMBDA d : d.side_effect.tag = "In"))
    IN  Len(a.set) + a.extra < UNALLOCATED_PIP - (2 * inputs)

\* C10: whenever Program::new succeeds, the number of tiles in the pile,
\* the two hidden alternates of every Input domino included, is strictly
\* below UNALLOCATED_PIP.
C10_TileCount == (Called /\ pc = "run") => TileCountBelowLimit(args)

(***************************************************************************)
(* The pile                                                                *)
(***************************************************************************)
\* Every index of the pile's buffer.
Refs == 0..(Len(pile.buffer) - 1)

Directions == {"North", "East", "South", "West"}

\* C11: for all refs r1 < r2 of a pile, side_effects(r1) <= side_effects(r2)
\* under Out < In < Pure; get_side_effects(r) is Pure exactly when
\* r >= impure_watermark, and hidden exactly when r >= hidden_watermark.
C11_PileOrdered ==
    Running =>
        /\ \A r \in Refs :
              LET effect == get_side_effects(pile, r)
              IN  /\ effect # Panic
                  /\ effect.tag = "Pure" <=> r >= pile.impure_watermark
                  /\ effect = PureHidden <=> r >= pile.hidden_watermark
        /\ \A r1, r2 \in Refs :
              r1 < r2 => SideEffects_rank(get_side_effects(pile, r1))
                            <= SideEffects_rank(get_side_effects(pile, r2))

\* C12: matches(r, dir) is exactly the set of refs of the buffer, hidden
\* ones included, whose pip on the edge -dir equals pile[r].cardinal(dir),
\* also when a tile occurs at more than one index.
C12_MatchesAll ==
    Running =>
        \A r \in Refs : \A dir \in Directions :
            matches(pile, r, dir) =
                {q \in Refs : cardinal(TileOf(pile, q), Neg(dir))
                                = cardinal(TileOf(pile, r), dir)}

(***************************************************************************)
(* Hidden tiles and I/O resolution                                         *)
(***************************************************************************)
Hidden(r) == get_side_effects(pile, r) = PureHidden

\* C13: in every step no candidate cloud holds a ref whose side effect is
\* Pure(Hidden), before the sweep or after it, and the row the evolver
\* returns holds no Input alternate.
C13_NoHiddenSelected ==
    Running =>
        LET row == Row_new(pile, border, state)
            swept == Sweep(pile, row, 1)
        IN  /\ \A i \in DOMAIN row : \A r \in row[i].cloud : ~Hidden(r)
            /\ \A i \in DOMAIN swept : \A r \in swept[i].cloud : ~Hidden(r)
            /\ \A evolved \in to_vec(pile, border, state) :
                  evolved.tag = "Ok" => \A i \in DOMAIN evolved.val : ~Hidden(evolved.val[i])

\* After a successful step, a cell whose south pip is matched by hidden
\* tiles, which TileCloud::new has to leave out.
C13_Witness ==
    /\ Running /\ nsteps >= 1 /\ result = "Ok"
    /\ \E i \in DOMAIN state : \E r \in matches(pile, state[i], "South") : Hidden(r)
    /\ \E evolved \in to_vec(pile, border, state) : evolved.tag = "Ok"

\* The bits IoBuffer::get hands out next: what is left of the input
\* register, then the bytes the source delivers, low bit first.
RegisterBits ==
    LET offset == io.input_buf.offset
    IN  [k \in 1..(IF offset = INITIAL_OFFSET THEN 0 ELSE LAST_OFFSET - offset) |->
            (io.input_buf.buffer \div Pow2((offset + k) - 1)) % 2]

\* How many of the cells 1..i of a row are Input cells.
InputRank(row, i) ==
    Cardinality({j \in 1..i : get_side_effects(pile, row[j]).tag = "In"})

\* C14: I/O resolution maps the evolver's row cell by cell: same length and
\* order, a Pure or Out cell keeps its ref, the k-th In cell becomes alts[0]
\* or alts[1] by the k-th bit read and keeps its north, east and west pips
\* (the other cells keep their tile), and an east/west consistent row stays
\* consistent.
C14_PointwiseIo ==
    Running =>
        \A evolved \in to_vec(pile, border, state) :
            LET before == IF evolved.tag = "Ok" THEN evolved.val ELSE <<>>
                effect == [i \in DOMAIN before |-> get_side_effects(pile, before[i])]
                rank == [i \in DOMAIN before |-> InputRank(before, i)]
                consistent == EastWestConsistent(BoardState(pile, before))
            IN  \A avail \in Deliverable :
                    LET r == perform_io(pile, io, before, avail)
                        after == r.res.val
                        bits == RegisterBits \o BitsOf(avail)
                    IN  r.res.tag = "Ok" =>
                            /\ Len(after) = Len(before)
                            /\ \A i \in DOMAIN before :
                                  IF effect[i].tag # "In" THEN after[i] = before[i]
                                  ELSE /\ after[i] = effect[i].alts[bits[rank[i]] + 1]
                                       /\ \A dir \in {"North", "East", "West"} :
                                             cardinal(TileOf(pile, after[i]), dir)
                                                 = cardinal(TileOf(pile, before[i]), dir)
                            /\ consistent => EastWestConsistent(BoardState(pile, after))

\* A row in which two Input cells were resolved to different alternates,
\* and an evolver row with Output cells ahead.
C14_Witness ==
    /\ Running /\ nsteps >= 1 /\ result = "Ok"
    /\ \E i, j \in DOMAIN state : i < j /\ Hidden(state[i]) /\ Hidden(state[j])
                                    /\ state[i] # state[j]
    /\ \E evolved \in to_vec(pile, border, state) :
          /\ evolved.tag = "Ok"
          /\ \E i \in DOMAIN evolved.val : get_side_effects(pile, evolved.val[i]).tag = "Out"

\* The bits IoBuffer::get has handed out so far.
ReadBits ==
    LET offset == io.input_buf.offset
        n == IF offset = INITIAL_OFFSET THEN 8 * Len(stdin.read)
             ELSE (8 * (Len(stdin.read) - 1)) + offset
    IN  SubSeq(BitsOf(stdin.read), 1, n)

\* The bits of the Output cells of a row, west to east.
OutBits(row) ==
    LET outs == SelectSeq(row, LAMBDA r : get_side_effects(pile, r).tag = "Out")
    IN  [k \in DOMAIN outs |-> IF get_side_effects(pile, outs[k]).bit THEN 1 ELSE 0]

\* The bits the resolved Input cells of a row stand for, west to east.
InBits(row) ==
    LET ins == SelectSeq(row, LAMBDA r : Hidden(r))
    IN  [k \in DOMAIN ins |->
            IF \E key \in DOMAIN pile.input : pile.input[key][2] = ins[k] THEN 1 ELSE 0]

\* C15: a step whose evolver fails performs no I/O; in a successful step
\* the bits read are those of the row's Input cells and the bits written
\* those of its Output cells, each in west-to-east order.
C15_EvolverThenIo ==
    [][Running =>
          /\ result' \in {"UnsatisfiableConstraints", "NoTilesLeft"} =>
                io' = io /\ stdin' = stdin /\ stdout' = stdout
          /\ nsteps' = nsteps + 1 =>
                /\ ReadBits' = ReadBits \o InBits(state')
                /\ EmittedBits' = EmittedBits \o OutBits(state')]_vars

\* A row with two Output cells of different bits has been written out.
C15_Witness ==
    /\ Running /\ nsteps >= 2 /\ result = "Ok"
    /\ OutBits(state) \in {<<0, 1>>, <<1, 0>>}
    /\ Len(EmittedBits) >= 2

(***************************************************************************)
(* Compiled programs, instruction by instruction                           *)
(***************************************************************************)
\* C16: the program `,.` emits exactly one bit over the whole run, equal to
\* the first input bit, in the step after the one that read it.
C16_EchoBit ==
    (Running /\ code = <<Io("In"), Io("Out")>>) =>
        /\ nsteps <= 2
        /\ nsteps = 0 => ReadBits = <<>> /\ EmittedBits = <<>>
        /\ nsteps = 1 => Len(ReadBits) = 1 /\ EmittedBits = <<>>
        /\ nsteps = 2 => Len(ReadBits) = 1 /\ EmittedBits = <<BitsOf(stdin.read)[1]>>

\* The run of `,.` on a byte whose first bit is 1 has come to its end.
C16_Witness ==
    /\ Running /\ code = <<Io("In"), Io("Out")>>
    /\ nsteps = 2 /\ result = "UnsatisfiableConstraints"
    /\ stdin.read[1] % 2 = 1 /\ EmittedBits = <<1>>

\* The cell of a row of tiles that holds the head.
HeadIndex(tiles) == CHOOSE i \in DOMAIN tiles : IsComposite(tiles[i][3])
HasHead(tiles) == \E i \in DOMAIN tiles : IsComposite(tiles[i][3])

\* The position the head's south pip names, and the instruction compile
\* translated at that position.
Position == RowTiles[HeadIndex(RowTiles)][3] \div 2
Halt == [op |-> "Halt"]
NextInsn ==
    IF HasHead(RowTiles) /\ ((Position - BASE_OFFSET) + 1) \in DOMAIN code
    THEN code[(Position - BASE_OFFSET) + 1] ELSE Halt

\* A successful step of a compiled Program.
Stepped == Compiled /\ Running /\ nsteps' = nsteps + 1

\* Every cell of the new row but the head's keeps the value below it.
OthersKept(tiles, h) ==
    \A i \in DOMAIN tiles :
        i # h => ~IsComposite(tiles[i][1]) /\ CellValue(tiles[i][1]) = CellValue(tiles[i][3])

\* C17: a step that executes Write(Unset) at position i leaves the head
\* cell with south pip pip_of(i + 1, 0), and Write(Set) with pip_of(i + 1, 1),
\* whatever the cell held; the head stays on its cell and every other cell
\* keeps its value.
C17_Write ==
    [][(Stepped /\ NextInsn.op = "Write") =>
          LET old == RowTiles[HeadIndex(RowTiles)]
              tiles == BoardState(pile, state')
              h == HeadIndex(tiles)
          IN  /\ HasHead(tiles)
              /\ tiles[h][1] = old[3]
              /\ tiles[h][3] = pip_from_components(Position + 1,
                                    IF NextInsn.value = "Set" THEN 1 ELSE 0)
              /\ OthersKept(tiles, h)]_vars

\* Write(Unset) has cleared a cell that held 1.
C17_Witness ==
    /\ Compiled /\ Running /\ nsteps >= 2 /\ result = "Ok"
    /\ HasHead(RowTiles)
    /\ LET h == HeadIndex(RowTiles)
       IN  /\ RowTiles[h][1] % 2 = 1 /\ IsComposite(RowTiles[h][1])
           /\ RowTiles[h][3] % 2 = 0
           /\ code[((RowTiles[h][1] \div 2) - BASE_OFFSET) + 1] = Write("Unset")

\* The head cell's north pip encodes the value 1.
HeadNorthOne ==
    /\ Compiled /\ Running /\ HasHead(RowTiles)
    /\ CellValue(RowTiles[HeadIndex(RowTiles)][1]) = 1

\* The head cell's south pip encodes the value 1.
HeadSouthOne ==
    /\ Compiled /\ Running /\ HasHead(RowTiles)
    /\ CellValue(RowTiles[HeadIndex(RowTiles)][3]) = 1

\* The last call of step() found no next row; the row is unchanged, so
\* every later call fails the same way and the run is over.
RunOver == result = "UnsatisfiableConstraints"

\* C18 as stated: stepping the compiled `+` far enough gives a row in which
\* the head cell's north pip encodes the value 1.  The run has two rows;
\* the row it ends with is the one that would have to show it.
C18_NorthOne == (code = <<Write("Set")>> /\ Running /\ RunOver) => HeadNorthOne

\* C18: the compiled `+` makes one successful step; the row it gives has
\* the head tile (pip_of(1, 0), 0, pip_of(2, 1), 0), whose south pip encodes
\* the value 1 and whose north pip encodes 0, and in no row of the run does
\* the head cell's north pip encode 1.
C18_SouthOne ==
    (code = <<Write("Set")>> /\ Running) =>
        /\ ~HeadNorthOne
        /\ nsteps <= 1
        /\ nsteps = 1 =>
              /\ HeadSouthOne
              /\ RowTiles[HeadIndex(RowTiles)]
                    = Tile_new(pip_from_components(BASE_OFFSET, 0), EMPTY_PIP,
                               pip_from_components(BASE_OFFSET + 1, 1), EMPTY_PIP)
        /\ RunOver => nsteps = 1

\* The run of `+` after its only successful step and a failed second one.
C18_Witness ==
    /\ code = <<Write("Set")>> /\ Running /\ nsteps = 1
    /\ RunOver /\ HeadSouthOne

\* The head stands on the last tape cell in the direction of the seek:
\* every cell of the row further that way, if any, is void (south pip
\* UNALLOCATED_PIP, the alcove compile provides).
AtEdge(direction) ==
    LET h == HeadIndex(RowTiles)
    IN  IF direction = "Left"
        THEN \A j \in 1..(h - 1) : RowTiles[j][3] = UNALLOCATED_PIP
        ELSE \A j \in (h + 1)..Len(RowTiles) : RowTiles[j][3] = UNALLOCATED_PIP

\* The third tile of mk_seek's landing triple, for the instruction at the
\* head's position: north UNALLOCATED_PIP, south pip_of(position + 1, 0).
landing_u(position, direction) ==
    IF direction = "Left"
    THEN Tile_new(UNALLOCATED_PIP, position, pip_from_components(position + 1, 0), EMPTY_PIP)
    ELSE Tile_new(UNALLOCATED_PIP, EMPTY_PIP, pip_from_components(position + 1, 0), position)

\* C19: every call of step() that executes a Seek with the head on the
\* last tape cell in the seek's direction succeeds, and the new row has the
\* head on the adjacent cell, on the landing tile with north
\* UNALLOCATED_PIP and south pip_of(i + 1, 0), next to the entry tile placed
\* above the old head.
C19_SeekIntoVoid ==
    [][(/\ Compiled /\ Running /\ pc = "run" /\ result = "Ok"
        /\ HasHead(RowTiles) /\ NextInsn.op = "Seek"
        /\ AtEdge(NextInsn.direction)) =>
          LET old == RowTiles[HeadIndex(RowTiles)]
              tiles == BoardState(pile, state')
              h == HeadIndex(tiles)
              entry == IF NextInsn.direction = "Left" THEN h + 1 ELSE h - 1
          IN  /\ result' = "Ok"
              /\ nsteps' = nsteps + 1
              /\ HasHead(tiles)
              /\ tiles[h] = landing_u(Position, NextInsn.direction)
              /\ entry \in DOMAIN tiles
              /\ tiles[entry][1] = old[3]]_vars

\* C20 as stated: the first step of the compiled `>` gives a row one cell
\* longer than the initial row, every old cell keeping its index (growth on
\* the east only), and compute() records the offset of the initial row.
C20_GrowsEastOnly ==
    [][(code = <<Seek("Right")>> /\ Stepped /\ nsteps = 0) =>
          LET prev == RowTiles
              cur == BoardState(pile, state')
          IN  /\ Len(cur) = Len(prev) + 1
              /\ \A i \in DOMAIN prev : cur[i][1] = prev[i][3]
              /\ Calcada_new_offset + compute_offset(prev, cur) = Calcada_new_offset]_vars

\* C20: the first step of the compiled `>` gives a row two cells longer
\* than the initial row: west_alcove is added on the west and east_alcove
\* on the east, every old cell moves one index up, the head goes from the
\* middle cell to the cell of initial_east, and compute() records the
\* offset of the initial row minus one.
C20_GrowsBothSides ==
    [][(code = <<Seek("Right")>> /\ Stepped /\ nsteps = 0) =>
          LET prev == RowTiles
              cur == BoardState(pile, state')
          IN  /\ Len(prev) = 3 /\ HeadIndex(prev) = 2
              /\ Len(cur) = Len(prev) + 2
              /\ cur[1] = west_alcove
              /\ cur[Len(cur)] = east_alcove
              /\ \A i \in DOMAIN prev : cur[i + 1][1] = prev[i][3]
              /\ HasHead(cur) /\ HeadIndex(cur) = 4
              /\ Calcada_new_offset + compute_offset(prev, cur) = Calcada_new_offset - 1]_vars

\* The row of `>` after its first step.
C20_Witness ==
    /\ code = <<Seek("Right")>> /\ Running /\ nsteps = 1
    /\ Len(RowTiles) = 5
    /\ RowTiles[1] = west_alcove /\ RowTiles[5] = east_alcove
    /\ HeadIndex(RowTiles) = 4

(***************************************************************************)
(* The bit registers of IoBuffer                                           *)
(***************************************************************************)
\* The bits the successful get() calls returned, in order.
Gets == SelectSeq(calls, LAMBDA c : c.op = "get" /\ c.ok)

\* C21: the k-th successful get() returns bit (k mod 8) of byte
\* floor(k / 8) of the stream, low bit first; after k bits exactly
\* ceil(k / 8) bytes were read, so a byte is read only by a get() at offset
\* 0 and never ahead of need; get() fails only on an exhausted source, at
\* offset 0.
C21_GetLsbFirst ==
    pc = "get" =>
        LET k == Len(Gets)
        IN  /\ \A i \in 1..k :
                  Gets[i].bit
                      = ((stdin.read[((i - 1) \div 8) + 1] \div Pow2((i - 1) % 8)) % 2 = 1)
            /\ Len(stdin.read) = (k + 7) \div 8
            /\ io.input_buf.offset = k % 8
            /\ (k # Len(calls)) => (stdin.eof /\ k % 8 = 0)

\* Sixteen bits were taken from the stream 0xa5, 0x5a.
C21_Witness ==
    /\ pc = "get" /\ Len(Gets) = 16 /\ stdin.read = <<165, 90>>
    /\ Gets[1].bit /\ ~Gets[2].bit /\ ~Gets[9].bit /\ Gets[10].bit

\* Bit j of a byte.
BitOf(byte, j) == (byte \div Pow2(j)) % 2 = 1

\* C22: after n put() calls, all of them successful, the sink holds exactly
\* floor(n / 8) bytes, bit j of byte m being the (8m + j)-th bit put; the
\* bits of the incomplete group are in the output register, at their
\* offsets, and nowhere else.
C22_PutGroupsOfEight ==
    pc = "put" =>
        LET n == Len(calls)
            full == n \div 8
        IN  /\ Len(stdout) = full
            /\ \A m \in 0..(full - 1) : \A j \in 0..7 :
                  BitOf(stdout[m + 1], j) = calls[(8 * m) + j + 1].bit
            /\ io.output_buf.offset = n % 8
            /\ \A j \in 0..7 :
                  BitOf(io.output_buf.buffer, j)
                      = (j < n % 8 /\ calls[(8 * full) + j + 1].bit)

\* The bits of 0x5a were written as one byte and two more bits wait in the
\* register.
C22_Witness ==
    /\ pc = "put" /\ Len(calls) = 10 /\ stdout = <<90>>
    /\ calls[9].bit /\ ~calls[10].bit
    /\ io.output_buf = [buffer |-> 1, offset |-> 2]

(***************************************************************************)
(* The end of the input                                                    *)
(***************************************************************************)
\* A row the evolver returns that holds an Input cell.
HasInput(row) == \E i \in DOMAIN row : get_side_effects(pile, row[i]).tag = "In"

\* C23: whenever the evolver's row holds an Input cell while the input
\* register is empty and the stream delivers nothing more, I/O resolution
\* returns the Io error; a step that returns Io leaves the row and the step
\* count as they were and has seen the end of the stream with the register
\* still empty (no bit is handed out in place of the missing one); and
\* step() called again on the exhausted stream returns Io again and changes
\* neither the row nor the registers.
C23_EofHalts ==
    /\ [][(Running /\ result' = "Io") =>
             /\ state' = state
             /\ nsteps' = nsteps
             /\ stdin'.eof
             /\ io'.input_buf = BitBuffer_new]_vars
    /\ []((Running /\ io.input_buf = BitBuffer_new) =>
             \A evolved \in to_vec(pile, border, state) :
                 (evolved.tag = "Ok" /\ HasInput(evolved.val)) =>
                     perform_io(pile, io, evolved.val, <<>>).res = Err("Io"))
    /\ []((Running /\ result = "Io") =>
             /\ stdin.eof
             /\ Deliverable = {<<>>}
             /\ \A o \in step(pile, border, io, state, Deliverable) :
                   /\ o.res = Err("Io")
                   /\ o.state = state /\ o.io = io
                   /\ o.read = <<>> /\ o.written = <<>>)

\* A compiled Program that made a step and then met the end of the stream
\* at an Input cell.
C23_Witness ==
    /\ Compiled /\ Running /\ result = "Io" /\ stdin.eof
    /\ nsteps >= 1 /\ NextInsn = Io("In")

(***************************************************************************)
(* Labels and jump targets                                                 *)
(***************************************************************************)
\* The statements accepted by from_str were turned into `code`.
Parsed == pc = "source" /\ result = "Ok"

\* The number of instructions among the first q statements.
InsnsUpTo(q) == Cardinality({p \in 1..q : text[p].op # "Label"})

\* The statement that became instruction k (from 0).
StmtOf(k) == CHOOSE q \in DOMAIN text : text[q].op # "Label" /\ InsnsUpTo(q) = k + 1

\* The index of the first instruction after the definition of label l.
AfterLabel(l) == InsnsUpTo(CHOOSE q \in DOMAIN text : text[q] = Label(l))

\* C24: for accepted statements, the instructions are the statements that
\* are not labels, in order; Write, Seek and Io are carried over, and
\* Jmp(t, f) at index k has t = the index of the first instruction after
\* the definition of its label, f likewise for a named false branch and
\* k + 1 for an omitted one; every target lies in 0..n.
C24_TargetsResolved ==
    Parsed =>
        LET n == Len(code)
        IN  /\ n = InsnsUpTo(Len(text))
            /\ \A k \in 0..(n - 1) :
                  LET stmt == text[StmtOf(k)]
                      insn == code[k + 1]
                  IN  IF stmt.op # "Jmp" THEN insn = stmt
                      ELSE /\ insn.op = "Jmp"
                           /\ insn.t = AfterLabel(stmt.t.label)
                           /\ insn.f = (IF stmt.f = NextAddress THEN k + 1
                                        ELSE AfterLabel(stmt.f.label))
                           /\ insn.t \in 0..n /\ insn.f \in 0..n

\* `a: jmp b, a  +  b:` : a label before the first instruction, one after
\* the last, and a jump naming both.
C24_Witness ==
    /\ Parsed
    /\ text = <<Label("a"), Jmp(Name("b"), Name("a")), Write("Set"), Label("b")>>
    /\ code = <<Jmp(2, 0), Write("Set")>>

\* The labels defined more than once, and the (instruction, label) pairs of
\* the jumps that name a label defined nowhere.
Duplicated ==
    {l \in LabelIds : Cardinality({q \in DOMAIN text : text[q] = Label(l)}) > 1}
Undefined ==
    {<<k, l>> \in (0..Len(text)) \X LabelIds :
        /\ k < InsnsUpTo(Len(text))
        /\ text[StmtOf(k)].op = "Jmp"
        /\ Name(l) \in {text[StmtOf(k)].t, text[StmtOf(k)].f}
        /\ \A q \in DOMAIN text : text[q] # Label(l)}

\* C25: from_str returns DuplicateLabel, naming a label defined twice,
\* whenever there is one; otherwise UnknownTarget, with the offset of the
\* first jump that names an undefined label and that label (the true
\* branch before the false one), whenever there is one; otherwise it
\* succeeds; a failure produces no instructions.
C25_LabelErrors ==
    (pc # "text") =>
        LET parsed == from_str(text)
        IN  /\ (pc = "rejected") = (Duplicated # {} \/ Undefined # {})
            /\ pc = "rejected" => (code = <<>> /\ result = parsed.err)
            /\ Duplicated # {} =>
                  \E l \in Duplicated : parsed = DuplicateLabel(l)
            /\ (Duplicated = {} /\ Undefined # {}) =>
                  \E u \in Undefined :
                      /\ parsed = UnknownTarget(u[1], Name(u[2]))
                      /\ \A v \in Undefined : u[1] <= v[1]
                      /\ text[StmtOf(u[1])].t \in {Name(u[2])} \cup
                             {Name(l) : l \in {m \in LabelIds :
                                                 \E q \in DOMAIN text : text[q] = Label(m)}}

\* `+ jmp a, b  a:` was rejected for the undefined label b of instruction 1.
C25_Witness ==
    /\ pc = "rejected" /\ result = "UnknownTarget"
    /\ text = <<Write("Set"), Jmp(Name("a"), Name("b")), Label("a")>>
    /\ from_str(text) = UnknownTarget(1, Name("b"))

(***************************************************************************)
(* Looking up the tiles computed so far                                    *)
(***************************************************************************)
\* The coordinates asked for: rows on both sides of every row computed,
\* columns from before the first to after the last.
Rows == (0 - 3)..(MaxSteps + 3)
Cols == (0 - 1)..(MaxSteps + 1)
TileRetrieval == {"OnlyComputed", "IncludeBorder"}

\* A tile has been placed at (row, col).
Placed(row, col) ==
    /\ col \in 0..(Len(mosaic) - 1)
    /\ row - mosaic[col + 1].offset \in 0..(Len(mosaic[col + 1].tiles) - 1)

PlacedTile(row, col) == mosaic[col + 1].tiles[(row - mosaic[col + 1].offset) + 1]

\* C26 as stated: get_tile returns the placed tile where there is one, and
\* everywhere else the border tile under IncludeBorder and nothing under
\* OnlyComputed.
C26_BorderEverywhere ==
    mosaic # <<>> =>
        \A row \in Rows : \A col \in Cols : \A options \in TileRetrieval :
            get_tile(row, col, options)
                = IF Placed(row, col) THEN Some(PlacedTile(row, col))
                  ELSE IF options = "IncludeBorder" THEN Some(Program_border)
                  ELSE None

\* C26: get_tile returns the placed tile tiles[row - offset] where there
\* is one; for a column below 0 and for a row outside the extent of a
\* computed column it returns the border tile under IncludeBorder and
\* nothing under OnlyComputed; for a column not computed yet it returns
\* nothing under either option.
C26_GetTile ==
    mosaic # <<>> =>
        \A row \in Rows : \A col \in Cols : \A options \in TileRetrieval :
            get_tile(row, col, options)
                = IF Placed(row, col) THEN Some(PlacedTile(row, col))
                  ELSE IF col >= Len(mosaic) THEN None
                  ELSE IF options = "IncludeBorder" THEN Some(Program_border)
                  ELSE None

\* Two rows were computed, the second one cell further west: its first
\* tile is found at row -1, and the column after it holds nothing.
C26_Witness ==
    /\ Len(mosaic) = 2 /\ mosaic[2].offset = 0 - 1
    /\ get_tile(0 - 1, 1, "OnlyComputed") = Some(west_alcove)
    /\ get_tile(0 - 1, 0, "IncludeBorder") = Some(Program_border)
    /\ get_tile(0, 2, "IncludeBorder") = None

(***************************************************************************)
(* The pip a seek binds its two tiles with                                 *)
(***************************************************************************)
\* mk_seek: let bind: Pip = position
seek_bind(position) == position

\* The positions compile gives to the Seek instructions of the program.
SeekPositions ==
    {(i - 1) + BASE_OFFSET : i \in {j \in DOMAIN code : code[j].op = "Seek"}}

\* The tiles mk_seek makes for the seek at `position`.
SeekTiles(position) ==
    {d.tile : d \in Range(mk_seek(position, code[(position - BASE_OFFSET) + 1].direction))}

\* Every pip of the pile met anywhere but on the edges the seek at
\* `position` binds: all four pips of every other tile, and the north and
\* south pips and the unbound edge (EMPTY_PIP) of the seek's own tiles.
OtherPips(position) ==
    {t[k] : t \in Range(pile.buffer) \ SeekTiles(position), k \in 1..4}
        \cup {t[k] : t \in SeekTiles(position), k \in {1, 3}}
        \cup {EMPTY_PIP}

\* C27: in a compiled pile the bind pip of every Seek differs from every
\* other pip of the pile: from the bind pips of the other seeks, from the
\* constant pips, from the magic pip of the initial row and from every
\* composite pip pip_of(j, b).
C27_BindDistinct ==
    (Compiled /\ pc = "run") =>
        \A position \in SeekPositions :
            /\ seek_bind(position) \notin OtherPips(position)
            /\ seek_bind(position) \notin
                  {EMPTY_PIP, ZERO_PIP, ONE_PIP, UNALLOCATED_PIP, unique_magic}
            /\ \A j \in 1..(Len(code) + 1) : \A b \in {0, 1} :
                  seek_bind(position) # pip_from_components(j, b)

(***************************************************************************)
(* What compile hands over                                                 *)
(***************************************************************************)
NoRepeat(seq) == \A i \in DOMAIN seq : \A j \in DOMAIN seq : seq[i] = seq[j] => i = j

\* C28: compile of a program without Debug succeeds: Program::new accepts
\* the generated set, the border and the initial row [initial_west,
\* initial_head, initial_east]; no tile is carried twice by the dominoes of
\* the set, alternates included; and before any step the head tile's south
\* pip is pip_of(BASE_OFFSET, 0).
C28_CompileSucceeds ==
    [][pc = "source" =>
          /\ pc' = "run" /\ result' = "Ok" /\ nsteps' = 0
          /\ BoardState(pile', state') = <<initial_west, initial_head, initial_east>>
          /\ TileOf(pile', border') = void_border
          /\ NoRepeat(pile'.buffer)
          /\ Len(pile'.buffer) >= 8 + (2 * Len(code))
          /\ TileOf(pile', state'[2])[3] = pip_from_components(BASE_OFFSET, 0)]_vars

\* A program of jumps and input has been compiled and not yet stepped.
C28_Witness ==
    /\ code = <<Io("In"), Jmp(0, 0)>>
    /\ Compiled /\ pc = "run" /\ result = "Ok" /\ nsteps = 0
    /\ Len(state) = 3 /\ TileOf(pile, state[2]) = initial_head
    /\ Len(pile.buffer) = 16

(***************************************************************************)
(* The frontier clouds of Row::new                                         *)
(***************************************************************************)
\* The refs the pile's index hands out that select() may return: those of
\* tiles that are not stored as alternates of an Input domino.
Selectable == {r \in Range(pile.as_ref) : get_side_effects(pile, r) # PureHidden}

\* The selectable refs whose tile has north pip `north` and pip `pip` on
\* the edge `direction`.
Fitting(north, pip, direction) ==
    {r \in Selectable :
        /\ cardinal(TileOf(pile, r), "North") = north
        /\ cardinal(TileOf(pile, r), direction) = pip}

\* Row::new is reached: a Program stands and TileCloud::new can tell the
\* side effect of every ref it is given.
RowBuilt == pc = "run" /\ Panics(pile, Row_new_refs(pile, border, state)) = {}

Settled(row, i) ==
    /\ i > 1 => constrain(pile, row[i], row[i - 1], "West") = row[i]
    /\ i < Len(row) => constrain(pile, row[i], row[i + 1], "East") = row[i]

\* C30: for every compiled program and every row it reaches, the clouds the
\* single west-to-east sweep of to_vec leaves are a fixed point of the
\* propagation: constraining any cloud again, the two frontier clouds
\* included, against either neighbour removes no tile.
C30_SweepFixedPoint ==
    (Compiled /\ RowBuilt /\ Swept # <<>>) =>
        \A i \in DOMAIN Swept : Settled(Swept, i)

(***************************************************************************)
(* The length of the row to_vec returns                                    *)
(***************************************************************************)
\* `picked` without its first member if that is the border and without its
\* last member if that is the border.
EndsCut(picked) ==
    SubSeq(picked,
           IF picked[1] = border THEN 2 ELSE 1,
           IF picked[Len(picked)] = border THEN Len(picked) - 1 ELSE Len(picked))

\* C31: to_vec returns the tiles selected from the row.len() + 2 clouds in
\* order, without the first iff it is the border, without the last iff it
\* is the border, and with every interior cell; so a successful step gives
\* a row of length len, len + 1 or len + 2, never a shorter or empty one.
C31_RowLength ==
    /\ [](RowBuilt =>
            \A evolved \in to_vec(pile, border, state) :
                evolved.tag = "Ok" =>
                    /\ \E picked \in Product([i \in DOMAIN Swept |-> select(Swept[i])]) :
                          /\ Len(picked) = Len(state) + 2
                          /\ evolved.val = EndsCut(picked)
                    /\ Len(evolved.val) \in Len(state)..(Len(state) + 2)
                    /\ Len(evolved.val) >= 1)
    /\ [][(pc = "run" /\ nsteps' = nsteps + 1) =>
            /\ Len(state') \in Len(state)..(Len(state) + 2)
            /\ state' # <<>>]_vars

\* A step has kept the border selected for an interior cell (the borders
\* selected for the two frontier cells are always left out).
C31_Witness ==
    /\ pc = "run" /\ nsteps >= 1 /\ result = "Ok"
    /\ \E i \in DOMAIN state : state[i] = border

(***************************************************************************)
(* What select() returns                                                   *)
(***************************************************************************)
\* The sets of refs select() is tried on: the clouds Row::new builds for
\* the current row, the clouds the sweep leaves, each of their members
\* alone, and the empty cloud.
TriedClouds ==
    LET built == Row_new(pile, border, state)
        swept == Sweep(pile, built, 1)
        whole == {built[i].cloud : i \in DOMAIN built} \cup {swept[i].cloud : i \in DOMAIN swept}
    IN  whole \cup {{r} : r \in UNION whole} \cup {{}}

\* The preferences tried on a cloud: each of its members and the border
\* preferred and avoided, and no preference.
TriedConfs(cloud) ==
    {Prefer(r) : r \in cloud \cup {border}} \cup {Avoid(r) : r \in cloud \cup {border}}
        \cup {Whatever}

\* C32: select returns a member of the cloud whenever the cloud is not
\* empty; with Prefer(r) it returns r whenever r is a member; with Avoid(r)
\* it returns r only when r is the only member; and it fails with
\* NoTilesLeft (no ref returned) exactly when the cloud is empty.
C32_Select ==
    [](RowBuilt =>
        LET tried == TriedClouds
        IN  \A cloud \in tried : \A conf \in TriedConfs(cloud) :
            LET picks == select([cloud |-> cloud, conf |-> conf])
            IN  /\ picks \subseteq cloud
                /\ picks = {} <=> cloud = {}
                /\ (conf.kind = "Prefer" /\ conf.ref \in cloud) => picks = {conf.ref}
                /\ (conf.kind = "Avoid" /\ conf.ref \in picks) => cloud = {conf.ref})

\* The sweep of a compiled Program has left a frontier cloud of several
\* tiles with the border among them and an interior cloud that holds the
\* avoided border next to other tiles.
C32_Witness ==
    /\ Compiled /\ RowBuilt /\ Swept # <<>>
    /\ Cardinality(Swept[1].cloud) > 1 /\ select(Swept[1]) = {border}
    /\ \E i \in DOMAIN state :
          LET inner == Row_new(pile, border, state)[i + 1]
          IN  /\ inner.conf = Avoid(border)
              /\ border \in inner.cloud
              /\ select(inner) = inner.cloud \ {border}
              /\ select(inner) # {}

(***************************************************************************)
(* The offsets of the two bit registers                                    *)
(***************************************************************************)
\* C33: after every call of get or put, successful or not, the offset of
\* the input register and the offset of the output register lie in 0..7.
C33_OffsetsInRange ==
    /\ io.input_buf.offset \in 0..(LAST_OFFSET - 1)
    /\ io.output_buf.offset \in 0..(LAST_OFFSET - 1)

(***************************************************************************)
(* The offsets of the rows Calcada::compute records                        *)
(***************************************************************************)
\* The number of cells row c of the mosaic lies further west than row c - 1.
WestShift(c) == mosaic[c - 1].offset - mosaic[c].offset

\* C34: every row compute appends has offset(new) = offset(previous) - k
\* with k in {0, 1} the number of cells the row grew on the west: cell j of
\* the previous row lies directly north of cell j + k of the new row.  The
\* rest of the growth is on the east and changes no offset, and every
\* offset is <= 0.
C34_OffsetFollowsWest ==
    \A c \in 2..Len(mosaic) :
        LET prev == mosaic[c - 1].tiles
            new == mosaic[c].tiles
            k == WestShift(c)
        IN  /\ k \in {0, 1}
            /\ Len(new) - (Len(prev) + k) \in {0, 1}
            /\ \A j \in DOMAIN prev : prev[j][3] = new[j + k][1]
            /\ mosaic[c].offset <= 0
            /\ mosaic[1].offset = 0

\* A row after the second was recorded that grew by one cell, on the west,
\* and the run goes on.
C34_Witness ==
    /\ \E c \in 3..Len(mosaic) :
          /\ WestShift(c) = 1
          /\ Len(mosaic[c].tiles) = Len(mosaic[c - 1].tiles) + 1
    /\ pc = "run"

(***************************************************************************)
(* When a row grows                                                        *)
(***************************************************************************)
\* The cell next to the head in `direction` is an alcove: its south pip is
\* UNALLOCATED_PIP.
OntoAlcove(direction) ==
    LET h == HeadIndex(RowTiles)
        target == IF direction = "Left" THEN h - 1 ELSE h + 1
    IN  target \in DOMAIN RowTiles /\ RowTiles[target][3] = UNALLOCATED_PIP

\* C35: a successful step of a compiled Program lengthens the row only if
\* it is the first step, from the three-tile initial row, or if it executes
\* a Seek that moves the head onto the western or the eastern alcove cell;
\* every other successful step keeps the length of the row.
C35_GrowsOnSeekOnly ==
    [][(Stepped /\ Len(state') # Len(state)) =>
          \/ nsteps = 0 /\ Len(state) = 3
          \/ /\ HasHead(RowTiles) /\ NextInsn.op = "Seek"
             /\ OntoAlcove(NextInsn.direction)]_vars

(***************************************************************************)
(* After the evolver has failed                                            *)
(***************************************************************************)
\* C36: once step() has failed with UnsatisfiableConstraints every later
\* call fails with UnsatisfiableConstraints and the row never changes
\* again; whether the evolver fails is decided by the row and the pile:
\* either every outcome of to_vec is that error or none is.
C36_FailureIsFinal ==
    /\ [][(pc = "run" /\ result = "UnsatisfiableConstraints") =>
             /\ result' = "UnsatisfiableConstraints"
             /\ state' = state /\ nsteps' = nsteps
             /\ io' = io /\ stdin' = stdin /\ stdout' = stdout]_vars
    /\ [][(pc = "run" /\ result' = "UnsatisfiableConstraints") => state' = state]_vars
    /\ []((pc = "run" /\ result = "UnsatisfiableConstraints") =>
             \A o \in step(pile, border, io, state, Deliverable) :
                 /\ o.res = Err("UnsatisfiableConstraints")
                 /\ o.state = state /\ o.io = io
                 /\ o.read = <<>> /\ o.written = <<>>)
    /\ [](RowBuilt =>
             \A e1 \in to_vec(pile, border, state) : \A e2 \in to_vec(pile, border, state) :
                 e1 = Err("UnsatisfiableConstraints") => e2 = e1)

\* A compiled Program has stepped and then failed in the evolver.
C36_Witness ==
    /\ Compiled /\ pc = "run" /\ result = "UnsatisfiableConstraints"
    /\ nsteps >= 2 /\ Swept = <<>>

(***************************************************************************)
(* Empty clouds                                                            *)
(***************************************************************************)
\* C37: to_vec never returns NoTilesLeft: when the propagation sweep
\* completes, each of the row.len() + 2 clouds is non-empty at selection,
\* so a step that finds no next row reports UnsatisfiableConstraints.
C37_NeverNoTilesLeft ==
    [](
        /\ RowBuilt =>
              /\ LET swept == Swept
                 IN  swept # <<>> =>
                        /\ Len(swept) = Len(state) + 2
                        /\ \A i \in DOMAIN swept : swept[i].cloud # {} /\ select(swept[i]) # {}
              /\ \A evolved \in to_vec(pile, border, state) :
                    evolved.tag = "Err" => evolved = Err("UnsatisfiableConstraints")
        /\ result # "NoTilesLeft")

\* A step has failed on a row for which Row::new built a cloud that was
\* empty from the start: the failure is UnsatisfiableConstraints.
C37_Witness ==
    /\ RowBuilt /\ result = "UnsatisfiableConstraints"
    /\ \E i \in DOMAIN state : Row_new(pile, border, state)[i + 1].cloud = {}

(***************************************************************************)
(* The side effect of every ref                                            *)
(***************************************************************************)
\* The dominoes the pile was built from.
Dominoes == IF Compiled THEN compile_args(code).set ELSE args.set

\* What get_side_effects is to return for the ref of the tile of `domino`.
OwnTag(domino) ==
    IF domino.side_effect.tag = "In"
    THEN In(<<pile.as_ref[domino.side_effect.alts[1]],
              pile.as_ref[domino.side_effect.alts[2]]>>)
    ELSE domino.side_effect

\* C38: in every pile Program::new has built, get_side_effects returns a
\* value for every ref of the buffer; the ref of each domino's tile has the
\* domino's own tag (Out(bit), In(refs of the alternates), Pure(Nothing));
\* and the ref of each alternate is Pure(Hidden).
C38_EveryRefTagged ==
    pc = "run" =>
        /\ \A r \in 0..(Len(pile.buffer) - 1) : get_side_effects(pile, r) # Panic
        /\ \A i \in DOMAIN Dominoes :
              /\ get_side_effects(pile, pile.as_ref[Dominoes[i].tile]) = OwnTag(Dominoes[i])
              /\ Dominoes[i].side_effect.tag = "In" =>
                    \A k \in 1..2 :
                        get_side_effects(pile, pile.as_ref[Dominoes[i].side_effect.alts[k]])
                            = PureHidden

(***************************************************************************)
(* The rows Calcada keeps                                                  *)
(***************************************************************************)
\* C39: the rows stored by Calcada::compute are append-only: a row once
\* pushed is never changed or removed.  Once a step has failed, running
\* stays false: no later call of compute invokes step() or changes the
\* Calcada.  Every call of compute returns Ok with a certificate whose
\* col_end is the index of the last stored row.
C39_AppendOnly ==
    /\ [][/\ Len(mosaic') >= Len(mosaic)
          /\ SubSeq(mosaic', 1, Len(mosaic)) = mosaic
          /\ pc = "stopped" => pc' = "stopped" /\ mosaic' = mosaic /\ state' = state]_vars
    /\ [](pc = "stopped" =>
             \A col_end \in (0 - 1)..(MaxSteps + 1) :
                 compute(Calcada_now, col_end) = {Calcada_now})
    /\ []((pc \in {"run", "stopped"} /\ certificate # <<>>) =>
             /\ result = "Ok"
             /\ certificate.col_end = Len(mosaic) - 1)

\* A step has failed after two rows were pushed, and compute has returned
\* its certificate.
C39_Witness ==
    /\ pc = "stopped" /\ result = "Ok"
    /\ Len(mosaic) = 3 /\ nsteps = 2
    /\ certificate = ComputeCertificate(0, 0, 0, 2)

(***************************************************************************)
(* The end of a compiled program                                           *)
(***************************************************************************)
\* The head's position is the one past the last instruction.
PastEnd(tiles) ==
    /\ HasHead(tiles)
    /\ tiles[HeadIndex(tiles)][3] \div 2 = BASE_OFFSET + Len(code)

\* The branch a jmp takes on the value of the head's cell.
Taken(insn) == IF CellValue(RowTiles[HeadIndex(RowTiles)][3]) = 1 THEN insn.t ELSE insn.f

\* C40: once the head's position is past the last instruction of a
\* compiled program, every step() fails with UnsatisfiableConstraints,
\* reads and writes nothing and leaves the Program as it was.  The head
\* gets there by fallthrough (a successful step of the last instruction
\* that is no jmp) and by a jmp whose taken target is the end of the
\* program.
C40_HaltFails ==
    /\ []((Compiled /\ Running /\ PastEnd(RowTiles)) =>
             \A o \in step(pile, border, io, state, Deliverable) :
                 /\ o.res.tag = "Err" /\ o.res.err = "UnsatisfiableConstraints"
                 /\ o.read = <<>> /\ o.written = <<>>
                 /\ o.state = state /\ o.io = io)
    /\ [][(Stepped /\ NextInsn.op \in {"Write", "Seek", "Io"}
             /\ (Position - BASE_OFFSET) + 1 = Len(code))
            => PastEnd(BoardState(pile, state'))]_vars
    /\ [][(Stepped /\ NextInsn.op = "Jmp" /\ Taken(NextInsn) = Len(code))
            => PastEnd(BoardState(pile, state'))]_vars

\* A jmp to the end of the program has been taken and the step after it
\* has failed.
C40_Witness ==
    /\ Compiled /\ Running /\ PastEnd(RowTiles)
    /\ code = <<Write("Set"), Jmp(2, 0)>>
    /\ nsteps = 2 /\ result = "UnsatisfiableConstraints"

\* The last instruction, an input, has been executed and the step after
\* it has failed.
C40_Fallthrough ==
    /\ Compiled /\ Running /\ PastEnd(RowTiles)
    /\ code = <<Io("In")>>
    /\ nsteps = 1 /\ result = "UnsatisfiableConstraints"

====
